---- MODULE Spec2Model ----
(***************************************************************************)
(* The template generator of scripts/generate-template.mjs as a state      *)
(* machine: the catalog, the command line, the interactive prompts, the    *)
(* copy of a template tree into the output directory and the synthesis of  *)
(* .env.example.                                                           *)
(*                                                                         *)
(* Representation.  A JavaScript string is the sequence of its characters  *)
(* (<<"a", "p", "i">> is 'api'), so that startsWith, includes, split,      *)
(* trim, parseInt and the template literals are computed on characters.    *)
(* A JavaScript value is a record tagged by its type: Str, Bool, Arr, Obj, *)
(* Undefined.  Object keys that the program only looks up (package         *)
(* manifest fields, customization keys) are TLA+ strings.                  *)
(***************************************************************************)
EXTENDS Integers, Sequences, FiniteSets, TLC

-----------------------------------------------------------------------------
(* JavaScript values *)

Undefined == [t |-> "undefined"]
Null == [t |-> "null"]
Str(s) == [t |-> "str", v |-> s]
Bool(b) == [t |-> "bool", v |-> b]
Arr(a) == [t |-> "arr", v |-> a]
Obj(o) == [t |-> "obj", v |-> o]

\* `const v = x; e`: Let([v \in {x} |-> e]) is e with v bound to the value of
\* x, which is evaluated once, before e is.
Let(f) == CHOOSE r \in {g[CHOOSE v \in DOMAIN g : TRUE] : g \in {f}} : TRUE

\* ToBoolean: what `x || y`, `if (x)` and `!x` see.
Truthy(x) ==
  Let([a \in {x} |-> CASE a.t = "undefined" -> FALSE
                       [] a.t = "null" -> FALSE
                       [] a.t = "str" -> Len(a.v) > 0
                       [] a.t = "bool" -> a.v
                       [] OTHER -> TRUE])

\* x || y
OrElse(x, y) == Let([a \in {x} |-> IF Truthy(a) THEN a ELSE y])

\* ToString, as a template literal `${x}` applies it (strings, booleans, undefined).
ToStr(x) ==
  Let([a \in {x} |->
    CASE a.t = "str" -> a.v
      [] a.t = "bool" -> IF a.v THEN <<"t", "r", "u", "e">> ELSE <<"f", "a", "l", "s", "e">>
      [] a.t = "null" -> <<"n", "u", "l", "l">>
      [] OTHER -> <<"u", "n", "d", "e", "f", "i", "n", "e", "d">>])

\* obj[key] for an object held as a function from its keys.
Get(o, k) == Let([p \in {o} |-> IF k \in DOMAIN p THEN p[k] ELSE Undefined])

\* obj[key] = value
Put(o, k, x) ==
  Let([a \in {<<o, x>>} |-> [j \in DOMAIN a[1] \cup {k} |-> IF j = k THEN a[2] ELSE a[1][j]]])

\* delete obj[key]
Del(o, k) == Let([p \in {o} |-> [j \in DOMAIN p \ {k} |-> p[j]]])

EmptyObj == [j \in {} |-> Undefined]

-----------------------------------------------------------------------------
(* JavaScript string methods, on character sequences *)

Range(s) == {s[i] : i \in 1..Len(s)}

\* s.startsWith(p)
StartsWith(s, p) == Let([a \in {s} |-> Len(a) >= Len(p) /\ SubSeq(a, 1, Len(p)) = p])

\* s.includes(sub)
Includes(s, sub) ==
  \E i \in 1..(Len(s) - Len(sub) + 1) : SubSeq(s, i, i + Len(sub) - 1) = sub

\* array.includes(x)
ArrIncludes(a, x) == \E i \in 1..Len(a) : a[i] = x

\* s.slice(n), n >= 0
Slice(s, n) == SubSeq(s, n + 1, Len(s))

\* a.slice(from, to), 0 <= from: the elements from+1 .. to, clipped to the length.
SliceTo(a, from, to) == SubSeq(a, from + 1, IF to < Len(a) THEN to ELSE Len(a))

\* s.split(c) for a one-character separator: always at least one piece.
RECURSIVE Split(_, _)
Split(s, c) ==
  IF \A i \in 1..Len(s) : s[i] # c
    THEN <<s>>
    ELSE LET k == CHOOSE i \in 1..Len(s) : s[i] = c /\ \A j \in 1..(i - 1) : s[j] # c
         IN <<SubSeq(s, 1, k - 1)>>
              \o Let([rest \in {SubSeq(s, k + 1, Len(s))} |-> Split(rest, c)])

\* parts.join(sep)
RECURSIVE Join(_, _)
Join(parts, sep) ==
  Let([ps \in {parts} |->
    IF Len(ps) = 0 THEN <<>>
    ELSE IF Len(ps) = 1 THEN ps[1]
    ELSE ps[1] \o sep \o Join(Tail(ps), sep)])

WhiteSpace == {" ", "\t", "\n", "\r"}

\* s.trim()
RECURSIVE TrimStart(_)
TrimStart(s) == IF Len(s) > 0 /\ s[1] \in WhiteSpace THEN TrimStart(Tail(s)) ELSE s
RECURSIVE TrimEnd(_)
TrimEnd(s) ==
  IF Len(s) > 0 /\ s[Len(s)] \in WhiteSpace
    THEN Let([v \in {SubSeq(s, 1, Len(s) - 1)} |-> TrimEnd(v)])
    ELSE s
Trim(s) == Let([v \in {TrimStart(s)} |-> TrimEnd(v)])

\* s.toLowerCase(), on the letters
LowerOf ==
  [A |-> "a", B |-> "b", C |-> "c", D |-> "d", E |-> "e", F |-> "f", G |-> "g",
   H |-> "h", I |-> "i", J |-> "j", K |-> "k", L |-> "l", M |-> "m", N |-> "n",
   O |-> "o", P |-> "p", Q |-> "q", R |-> "r", S |-> "s", T |-> "t", U |-> "u",
   V |-> "v", W |-> "w", X |-> "x", Y |-> "y", Z |-> "z"]
ToLowerCase(s) ==
  Let([a \in {s} |->
    [i \in 1..Len(a) |-> IF a[i] \in DOMAIN LowerOf THEN LowerOf[a[i]] ELSE a[i]]])

DigitOf ==
  ("0" :> 0) @@ ("1" :> 1) @@ ("2" :> 2) @@ ("3" :> 3) @@ ("4" :> 4) @@
  ("5" :> 5) @@ ("6" :> 6) @@ ("7" :> 7) @@ ("8" :> 8) @@ ("9" :> 9)

RECURSIVE DigitsPrefix(_)
DigitsPrefix(s) ==
  IF Len(s) > 0 /\ s[1] \in DOMAIN DigitOf THEN <<s[1]>> \o DigitsPrefix(Tail(s)) ELSE <<>>

RECURSIVE DigitsValue(_)
DigitsValue(d) ==
  IF Len(d) = 0 THEN 0
  ELSE 10 * Let([v \in {SubSeq(d, 1, Len(d) - 1)} |-> DigitsValue(v)]) + DigitOf[d[Len(d)]]

\* parseInt(s, 10): leading white space skipped, an optional sign, then the
\* longest run of digits; NaN (nan = TRUE) when there is no digit.
ParseInt(s) ==
  Let([t \in {TrimStart(s)} |->
    LET neg == Len(t) > 0 /\ t[1] = "-"
        u == IF Len(t) > 0 /\ t[1] \in {"-", "+"} THEN Tail(t) ELSE t
    IN Let([d \in {DigitsPrefix(u)} |->
         IF Len(d) = 0 THEN [nan |-> TRUE, n |-> 0]
         ELSE [nan |-> FALSE, n |-> IF neg THEN 0 - DigitsValue(d) ELSE DigitsValue(d)]])])

\* number -> decimal string, for non-negative numbers
RECURSIVE NumToStr(_)
NumToStr(n) ==
  LET digit == CHOOSE c \in DOMAIN DigitOf : DigitOf[c] = n % 10
  IN IF n < 10 THEN <<digit>> ELSE NumToStr(n \div 10) \o <<digit>>

-----------------------------------------------------------------------------
(* Bounds of the model *)

\* Longest command line drawn for parseArgs on its own.
MaxArgs == 2
\* How many distinct outcomes of one randomBytes(32) call are drawn.
NumSeeds == 2
\* Longest envVars list drawn for the synthesizer on its own.
MaxEnvVars == 2

-----------------------------------------------------------------------------
(* State *)

VARIABLES
  argv,            \* process.argv.slice(2)
  catalogFile,     \* the file TEMPLATES_CONFIG: missing, or its content
  config,          \* this.config, the parsed catalog (null before loadConfig)
  tplDirs,         \* the directories under TEMPLATES_DIR: template id -> tree
  now,             \* new Date().toISOString() at the time of the run
  fs0,             \* the file system outside TEMPLATES_DIR when the process starts
  fs,              \* the file system outside TEMPLATES_DIR
  writes,          \* every mkdirSync / writeFileSync performed, in order
  pc,              \* where the run stands
  exitCode,        \* the process exit status, -1 while running
  rl,              \* this.rl: "null", "open" or "closed"
  prompts,         \* the questions asked on the line reader, in order
  console,         \* the messages printed (console.log / console.error), in order
  lastAnswer,      \* the input line most recently read by the line reader
  args,            \* parseArgs()
  templateId,
  template,
  projectDetails,
  customizations,
  custIdx,         \* position of getCustomizations' loop
  outputDir,
  envContent,      \* result of generateEnvFile
  secrets          \* outcome of the randomBytes call made for each env variable

vars ==
  <<argv, catalogFile, config, tplDirs, now, fs0, fs, writes, pc, exitCode, rl, prompts, console,
    lastAnswer, args, templateId, template, projectDetails, customizations, custIdx, outputDir,
    envContent, secrets>>

-----------------------------------------------------------------------------
(* Environment Synthesizer: generateEnvFile *)

s_GITHUB == <<"G", "I", "T", "H", "U", "B">>
s_GOOGLE == <<"G", "O", "O", "G", "L", "E">>
s_STRIPE == <<"S", "T", "R", "I", "P", "E">>
s_SECRET == <<"S", "E", "C", "R", "E", "T">>
s_github == <<"g", "i", "t", "h", "u", "b">>
s_google == <<"g", "o", "o", "g", "l", "e">>

EnvHeader ==
  << <<"#", " ", "E", "n", "v", "i", "r", "o", "n", "m", "e", "n", "t", " ",
       "V", "a", "r", "i", "a", "b", "l", "e", "s">>,
     <<"#", " ", "G", "e", "n", "e", "r", "a", "t", "e", "d", " ", "b", "y", " ",
       "T", "e", "m", "p", "l", "a", "t", "e", " ", "G", "e", "n", "e", "r", "a",
       "t", "o", "r">>,
     <<>> >>

SecretBytes == 32

\* The outcomes of randomBytes(n) that the model draws from: one per seed.
RandomBytes(n, seed) == [i \in 1..n |-> (seed * 89 + i * 53) % 256]

Seeds == 1..NumSeeds

HexDigits ==
  <<"0", "1", "2", "3", "4", "5", "6", "7", "8", "9", "a", "b", "c", "d", "e", "f">>

\* Mutant of ToHex: each byte printed without its leading zero.
RECURSIVE ToHex_NoPad(_)
ToHex_NoPad(bytes) ==
  IF Len(bytes) = 0 THEN <<>>
  ELSE (IF Head(bytes) < 16 THEN <<HexDigits[Head(bytes) + 1]>>
        ELSE <<HexDigits[(Head(bytes) \div 16) + 1], HexDigits[(Head(bytes) % 16) + 1]>>)
       \o ToHex_NoPad(Tail(bytes))

\* buffer.toString('hex'): two lowercase hex digits per byte.
RECURSIVE ToHex(_)
ToHex(bytes) ==
  IF Len(bytes) = 0 THEN <<>>
  ELSE <<HexDigits[(Head(bytes) \div 16) + 1], HexDigits[(Head(bytes) % 16) + 1]>>
       \o ToHex(Tail(bytes))

\* customizations.authProviders?.includes(provider): undefined when the
\* customization is absent, array membership for an array, substring for a string.
AuthProvidersIncludes(cust, provider) ==
  LET ap == Get(cust, "authProviders")
  IN CASE ap.t = "arr" -> ArrIncludes(ap.v, provider)
       [] ap.t = "str" -> Includes(ap.v, provider)
       [] OTHER -> FALSE

\* const value = envVar.required ? envVar.example : (envVar.default || envVar.example || '')
EnvValue(envVar) ==
  IF envVar.required THEN envVar.example
  ELSE OrElse(OrElse(envVar.default, envVar.example), Str(<<>>))

\* The three `continue` branches: the line is commented out.
EnvGated(envVar, cust) ==
  \/ Includes(envVar.key, s_GITHUB) /\ ~AuthProvidersIncludes(cust, s_github)
  \/ Includes(envVar.key, s_GOOGLE) /\ ~AuthProvidersIncludes(cust, s_google)
  \/ Includes(envVar.key, s_STRIPE) /\ Get(cust, "includeStripe") = Bool(FALSE)

\* envVar.key.includes('SECRET') && !envVar.key.includes('STRIPE')
EnvIsSecretKey(envVar) ==
  Includes(envVar.key, s_SECRET) /\ ~Includes(envVar.key, s_STRIPE)

\* Mutant of EnvLine: a generated secret whose first byte is even is
\* commented out.
EnvLine_GateByRandom(envVar, cust, rnd) ==
  IF EnvGated(envVar, cust) \/ (EnvIsSecretKey(envVar) /\ rnd[1] % 2 = 0)
    THEN <<"#", " ">> \o envVar.key \o <<"=">> \o ToStr(EnvValue(envVar))
  ELSE IF EnvIsSecretKey(envVar)
    THEN envVar.key \o <<"=">> \o ToHex(rnd)
  ELSE envVar.key \o <<"=">> \o ToStr(EnvValue(envVar))

\* Mutant of EnvLine: the secret is the hex of a fixed buffer, not of the
\* bytes drawn.
EnvLine_FixedSecret(envVar, cust, rnd) ==
  IF EnvGated(envVar, cust)
    THEN <<"#", " ">> \o envVar.key \o <<"=">> \o ToStr(EnvValue(envVar))
  ELSE IF EnvIsSecretKey(envVar)
    THEN envVar.key \o <<"=">> \o ToHex(RandomBytes(SecretBytes, 1))
  ELSE envVar.key \o <<"=">> \o ToStr(EnvValue(envVar))

\* The line pushed for one variable; rnd is the outcome of randomBytes(32).
EnvLine(envVar, cust, rnd) ==
  IF EnvGated(envVar, cust)
    THEN <<"#", " ">> \o envVar.key \o <<"=">> \o ToStr(EnvValue(envVar))
  ELSE IF EnvIsSecretKey(envVar)
    THEN envVar.key \o <<"=">> \o ToHex(rnd)
  ELSE envVar.key \o <<"=">> \o ToStr(EnvValue(envVar))

\* Mutant of EnvLoop: a variable commented out by the gating gets no line.
RECURSIVE EnvLoop_SkipGated(_, _, _, _, _)
EnvLoop_SkipGated(envVars, cust, rnd, i, lines) ==
  IF i > Len(envVars) THEN lines
  ELSE EnvLoop_SkipGated(envVars, cust, rnd, i + 1,
         IF EnvGated(envVars[i], cust) THEN lines
         ELSE Append(lines, EnvLine(envVars[i], cust, RandomBytes(SecretBytes, rnd[i]))))

\* for (const envVar of template.envVars) { ... lines.push(...) }
RECURSIVE EnvLoop(_, _, _, _, _)
EnvLoop(envVars, cust, rnd, i, lines) ==
  IF i > Len(envVars) THEN lines
  ELSE EnvLoop(envVars, cust, rnd, i + 1,
               Append(lines, EnvLine(envVars[i], cust, RandomBytes(SecretBytes, rnd[i]))))

\* generateEnvFile(template, customizations); rnd[i] is the seed of the
\* randomBytes outcome used if variable i gets a generated secret.
generateEnvFile(tpl, cust, rnd) ==
  IF ~Truthy(tpl.envVars) \/ Len(tpl.envVars.v) = 0 THEN Null
  ELSE Str(Join(EnvLoop(tpl.envVars.v, cust, rnd, 1, EnvHeader), <<"\n">>))

\* The randomBytes calls generateEnvFile makes: one for each variable that is
\* not gated and has a secret key.  Positions without a call hold 0.
EnvDraws(tpl, cust) ==
  IF ~Truthy(tpl.envVars) THEN {<<>>}
  ELSE LET ev == tpl.envVars.v
       IN {r \in [1..Len(ev) -> Seeds \cup {0}] :
             \A i \in 1..Len(ev) :
               (r[i] = 0) <=> ~(EnvIsSecretKey(ev[i]) /\ ~EnvGated(ev[i], cust))}

-----------------------------------------------------------------------------
(* Inputs of the synthesizer: declared variables and customizations *)

EnvVarSpec(key, required, default, example) ==
  [key |-> key, required |-> required, default |-> default, example |-> example]

s_DATABASE_URL == <<"D", "A", "T", "A", "B", "A", "S", "E", "_", "U", "R", "L">>
s_JWT_SECRET == <<"J", "W", "T", "_", "S", "E", "C", "R", "E", "T">>
s_PORT == <<"P", "O", "R", "T">>
s_GITHUB_ID == <<"G", "I", "T", "H", "U", "B", "_", "I", "D">>
s_GITHUB_SECRET == <<"G", "I", "T", "H", "U", "B", "_", "S", "E", "C", "R", "E", "T">>
s_GOOGLE_CLIENT_ID == <<"G", "O", "O", "G", "L", "E", "_", "C", "L", "I", "E", "N", "T", "_", "I", "D">>
s_STRIPE_SECRET_KEY == <<"S", "T", "R", "I", "P", "E", "_", "S", "E", "C", "R", "E", "T", "_", "K", "E", "Y">>

EnvVarPool ==
  { EnvVarSpec(s_DATABASE_URL, TRUE, Undefined, Str(<<"p", "g", ":", "/", "/">>)),
    EnvVarSpec(s_DATABASE_URL, TRUE, Undefined, Undefined),
    EnvVarSpec(s_PORT, FALSE, Str(<<"3", "0">>), Undefined),
    EnvVarSpec(s_PORT, FALSE, Str(<<>>), Undefined),
    EnvVarSpec(s_PORT, FALSE, Undefined, Str(<<"8", "0">>)),
    EnvVarSpec(s_JWT_SECRET, TRUE, Undefined, Undefined),
    EnvVarSpec(s_JWT_SECRET, FALSE, Str(<<"d">>), Str(<<"e">>)),
    EnvVarSpec(s_GITHUB_ID, TRUE, Undefined, Str(<<"i", "d">>)),
    EnvVarSpec(s_GITHUB_SECRET, TRUE, Undefined, Undefined),
    EnvVarSpec(s_GITHUB_SECRET, FALSE, Undefined, Str(<<"g", "s">>)),
    EnvVarSpec(s_GOOGLE_CLIENT_ID, FALSE, Str(<<"d">>), Str(<<"e">>)),
    EnvVarSpec(s_STRIPE_SECRET_KEY, TRUE, Undefined, Str(<<"s", "k">>)) }

SeqsUpTo(S, n) == UNION {[1..k -> S] : k \in 0..n}

AuthProvidersPool ==
  { Undefined, Arr(<<>>), Arr(<<s_github>>), Arr(<<s_google>>), Arr(<<s_github, s_google>>) }

IncludeStripePool == { Undefined, Bool(TRUE), Bool(FALSE) }

\* A customizations object with the given authProviders / includeStripe
\* (Undefined: the key is absent).
CustOf(ap, st) ==
  LET c1 == IF ap = Undefined THEN EmptyObj ELSE Put(EmptyObj, "authProviders", ap)
  IN IF st = Undefined THEN c1 ELSE Put(c1, "includeStripe", st)

EnvCustPool == {CustOf(ap, st) : ap \in AuthProvidersPool, st \in IncludeStripePool}

\* A TemplateDefinition: name, customizations (the ordered schema, or
\* undefined) and envVars (an array, or undefined).
TemplateDef(name, cust, envVars) ==
  [name |-> name, customizations |-> cust, envVars |-> envVars]

EnvTemplatePool ==
  {TemplateDef(<<"T">>, Undefined, Undefined)}
    \cup {TemplateDef(<<"T">>, Undefined, Arr(ev)) : ev \in SeqsUpTo(EnvVarPool, MaxEnvVars)}

-----------------------------------------------------------------------------
(* The synthesizer on its own: SpecEnv draws a template's envVars and the   *)
(* customizations, and applies generateEnvFile once.                        *)

IdleRun ==
  /\ argv = <<>>
  /\ catalogFile = Null
  /\ config = Null
  /\ tplDirs = <<>>
  /\ now = <<>>
  /\ fs0 = <<>>
  /\ fs = <<>>
  /\ writes = <<>>
  /\ exitCode = -1
  /\ rl = "null"
  /\ prompts = <<>>
  /\ console = <<>>
  /\ lastAnswer = Undefined
  /\ args = EmptyObj
  /\ templateId = Undefined
  /\ custIdx = 0
  /\ outputDir = <<>>

InitEnv ==
  /\ IdleRun
  /\ pc = "synth"
  /\ template \in EnvTemplatePool
  /\ customizations \in EnvCustPool
  /\ projectDetails = Undefined
  /\ envContent = Undefined
  /\ secrets = <<>>

SynthesizeEnv ==
  /\ pc = "synth"
  /\ \E rnd \in EnvDraws(template, customizations) :
       /\ envContent' = generateEnvFile(template, customizations, rnd)
       /\ secrets' = rnd
  /\ pc' = "synthesized"
  /\ UNCHANGED <<argv, catalogFile, config, tplDirs, now, fs0, fs, writes, exitCode, rl, prompts,
                 console, lastAnswer, args, templateId, template, projectDetails, customizations,
                 custIdx, outputDir>>

NextEnv == SynthesizeEnv

SpecEnv == InitEnv /\ [][NextEnv]_vars

-----------------------------------------------------------------------------
(* Reading the synthesized content back, as a consumer of .env.example does *)

EnvSynthesized == envContent.t = "str"

EnvOutLines == Split(envContent.v, "\n")

HeaderLen == 3

\* The output line of the i-th declared variable.
VarLine(i) == EnvOutLines[HeaderLen + i]

DeclaredVars == IF Truthy(template.envVars) THEN template.envVars.v ELSE <<>>

IsCommentedFor(line, key) == StartsWith(line, <<"#", " ">> \o key \o <<"=">>)

IsPlainFor(line, key) == StartsWith(line, key \o <<"=">>)

\* The text after 'KEY=' on a line, commented or not.
ShownValue(line, key) ==
  IF IsCommentedFor(line, key) THEN Slice(line, Len(key) + 3) ELSE Slice(line, Len(key) + 1)

IsHex64(s) ==
  /\ Len(s) = 64
  /\ \A i \in 1..Len(s) : s[i] \in Range(HexDigits)

\* The gating rule as the specification words it.
ProviderSelected(cust, provider) ==
  /\ "authProviders" \in DOMAIN cust
  /\ cust["authProviders"].t = "arr"
  /\ \E i \in 1..Len(cust["authProviders"].v) : cust["authProviders"].v[i] = provider

StatedGated(ev, cust) ==
  \/ Includes(ev.key, s_GITHUB) /\ ~ProviderSelected(cust, s_github)
  \/ Includes(ev.key, s_GOOGLE) /\ ~ProviderSelected(cust, s_google)
  \/ /\ Includes(ev.key, s_STRIPE)
     /\ "includeStripe" \in DOMAIN cust
     /\ cust["includeStripe"] = Bool(FALSE)

\* The candidate value as the specification words it: default if required is
\* false and a default exists, else example, else the empty string.
StatedCandidate(ev) ==
  IF ~ev.required /\ ev.default.t = "str" /\ Len(ev.default.v) > 0 THEN ev.default.v
  ELSE IF ev.example.t = "str" THEN ev.example.v
  ELSE <<>>

StatedSecretKey(ev) == Includes(ev.key, s_SECRET) /\ ~Includes(ev.key, s_STRIPE)

\* C6 (as stated): a variable's line is commented out exactly when its key
\* names an unselected provider (GITHUB / GOOGLE against authProviders, absent
\* included) or STRIPE with includeStripe false; a commented line is
\* '# KEY=<candidate value>' and every other line is an uncommented 'KEY=...'.
C6_EnvGating ==
  EnvSynthesized =>
    \A i \in 1..Len(DeclaredVars) :
      LET ev == DeclaredVars[i]
      IN IF StatedGated(ev, customizations)
           THEN VarLine(i) = <<"#", " ">> \o ev.key \o <<"=">> \o StatedCandidate(ev)
           ELSE IsPlainFor(VarLine(i), ev.key)

\* C6, for the variables on which C8's divergence cannot show (a required
\* variable has an example): the gating claim holds of the code.
C6_GatingWhereExampleGiven ==
  EnvSynthesized =>
    \A i \in 1..Len(DeclaredVars) :
      LET ev == DeclaredVars[i]
      IN (ev.required => ev.example.t = "str") =>
           IF StatedGated(ev, customizations)
             THEN VarLine(i) = <<"#", " ">> \o ev.key \o <<"=">> \o StatedCandidate(ev)
             ELSE IsPlainFor(VarLine(i), ev.key)

C8_CandidateValue ==
  EnvSynthesized =>
    \A i \in 1..Len(DeclaredVars) :
      LET ev == DeclaredVars[i]
      IN ~(StatedSecretKey(ev) /\ ~StatedGated(ev, customizations)) =>
           ShownValue(VarLine(i), ev.key) = StatedCandidate(ev)

\* C8, for the variables that are not required or have an example: the
\* candidate rule holds of the code.
C8_CandidateWhereExampleGiven ==
  EnvSynthesized =>
    \A i \in 1..Len(DeclaredVars) :
      LET ev == DeclaredVars[i]
      IN /\ ev.required => ev.example.t = "str"
         /\ ~(StatedSecretKey(ev) /\ ~StatedGated(ev, customizations))
         => ShownValue(VarLine(i), ev.key) = StatedCandidate(ev)

\* The lines another run of the synthesizer gives on the same template and
\* customizations when its randomBytes calls give the outcomes r2.
OtherRunLines(r2) == Split(generateEnvFile(template, customizations, r2).v, "\n")

\* The outcomes the random source may give to another run.
OtherDraws == [1..Len(DeclaredVars) -> Seeds]

\* The line of the i-th variable carries a generated secret.
CarriesSecret(i) ==
  StatedSecretKey(DeclaredVars[i]) /\ ~StatedGated(DeclaredVars[i], customizations)

\* C21: another run of the synthesizer on the same envVars and customizations,
\* whatever the random source gives it, has as many lines, the same header,
\* the same key with the same commented / uncommented status on every
\* variable line, and the same line wherever no generated secret is carried.
C21_EnvDeterminism ==
  EnvSynthesized =>
    \A r2 \in OtherDraws :
      /\ Len(OtherRunLines(r2)) = Len(EnvOutLines)
      /\ \A k \in 1..HeaderLen : OtherRunLines(r2)[k] = EnvOutLines[k]
      /\ \A i \in 1..Len(DeclaredVars) :
           LET key == DeclaredVars[i].key
               mine == VarLine(i)
               other == OtherRunLines(r2)[HeaderLen + i]
           IN /\ IsCommentedFor(mine, key) \/ IsPlainFor(mine, key)
              /\ IsCommentedFor(mine, key) <=> IsCommentedFor(other, key)
              /\ IsPlainFor(mine, key) <=> IsPlainFor(other, key)
              /\ ~CarriesSecret(i) => other = mine

\* C21 witness: the output has a generated secret line and a commented line,
\* and another outcome of the random source gives a different output.
C21_Witness ==
  /\ EnvSynthesized
  /\ \E i \in 1..Len(DeclaredVars) : CarriesSecret(i) /\ secrets[i] \in Seeds
  /\ \E i \in 1..Len(DeclaredVars) : IsCommentedFor(VarLine(i), DeclaredVars[i].key)
  /\ \E r2 \in OtherDraws : OtherRunLines(r2) # EnvOutLines

\* The outcomes of a second run whose random source repeats none of the
\* outcomes this run got.
FreshDraws ==
  {r2 \in OtherDraws : \A i \in 1..Len(DeclaredVars) : r2[i] # secrets[i]}

-----------------------------------------------------------------------------
(* Files and directories *)

\* File contents: a JSON text, held as the value it parses to, or plain text.
Json(o) == [t |-> "json", v |-> o]
Text(chars) == [t |-> "text", v |-> chars]

\* File contents given byte by byte (0..255): an image, a font, any file that
\* need not be text.  A Text content is ASCII text, one byte per character.
Bytes(b) == [t |-> "bytes", v |-> b]

ReplacementChar == 65533

\* How many continuation bytes the lead byte b1 announces; -1 when b1 cannot
\* start a UTF-8 sequence.
Utf8Need(b1) ==
  IF b1 < 128 THEN 0
  ELSE IF b1 \in 194..223 THEN 1
  ELSE IF b1 \in 224..239 THEN 2
  ELSE IF b1 \in 240..244 THEN 3
  ELSE -1

\* Whether b is a valid k-th continuation byte after the lead byte b1.
Utf8Continues(b1, k, b) ==
  IF k = 1
    THEN b >= (IF b1 = 224 THEN 160 ELSE IF b1 = 240 THEN 144 ELSE 128)
         /\ b <= (IF b1 = 237 THEN 159 ELSE IF b1 = 244 THEN 143 ELSE 191)
    ELSE b \in 128..191

\* The number of valid continuation bytes that follow the lead byte of b.
Utf8Good(b) ==
  LET ks == {k \in 1..Utf8Need(b[1]) :
               \A j \in 1..k : j + 1 <= Len(b) /\ Utf8Continues(b[1], j, b[j + 1])}
  IN Cardinality(ks)

Utf8CodePoint(b, need) ==
  CASE need = 0 -> b[1]
    [] need = 1 -> (b[1] - 192) * 64 + (b[2] - 128)
    [] need = 2 -> (b[1] - 224) * 4096 + (b[2] - 128) * 64 + (b[3] - 128)
    [] OTHER -> (b[1] - 240) * 262144 + (b[2] - 128) * 4096 + (b[3] - 128) * 64 + (b[4] - 128)

\* The string read by readFileSync(path, 'utf8'), as code points: every
\* maximal ill-formed part of the bytes becomes U+FFFD.
RECURSIVE Utf8Decode(_)
Utf8Decode(b) ==
  IF Len(b) = 0 THEN <<>>
  ELSE LET need == Utf8Need(b[1])
           good == Utf8Good(b)
       IN IF need = -1 THEN <<ReplacementChar>> \o Utf8Decode(Tail(b))
          ELSE IF good = need
            THEN <<Utf8CodePoint(b, need)>>
                   \o Let([v \in {SubSeq(b, need + 2, Len(b))} |-> Utf8Decode(v)])
          ELSE <<ReplacementChar>>
                 \o Let([v \in {SubSeq(b, good + 2, Len(b))} |-> Utf8Decode(v)])

\* The bytes writeFileSync(path, string) stores: the UTF-8 form of the string.
RECURSIVE Utf8Encode(_)
Utf8Encode(cps) ==
  IF Len(cps) = 0 THEN <<>>
  ELSE LET c == Head(cps)
       IN (IF c < 128 THEN <<c>>
           ELSE IF c < 2048 THEN <<192 + (c \div 64), 128 + (c % 64)>>
           ELSE IF c < 65536
             THEN <<224 + (c \div 4096), 128 + ((c \div 64) % 64), 128 + (c % 64)>>
           ELSE <<240 + (c \div 262144), 128 + ((c \div 4096) % 64), 128 + ((c \div 64) % 64),
                  128 + (c % 64)>>)
          \o Utf8Encode(Tail(cps))

\* A file read as 'utf8' and written back unchanged as a string.
ReadThenWrite(content) ==
  IF content.t = "bytes" THEN Bytes(Utf8Encode(Utf8Decode(content.v))) ELSE content

\* A directory entry of a template tree, as readdirSync(withFileTypes) lists it.
File(name, content) == [name |-> name, dir |-> FALSE, children |-> <<>>, content |-> content]
Dir(name, children) == [name |-> name, dir |-> TRUE, children |-> children, content |-> Null]

\* A node of the file system outside TEMPLATES_DIR; a path is the sequence of
\* its names from the root.
DirNode == [dir |-> TRUE, content |-> Null]
FileNode(content) == [dir |-> FALSE, content |-> content]

Parent(path) == SubSeq(path, 1, Len(path) - 1)
BaseName(path) == path[Len(path)]
IsUnder(path, dirPath) == Len(path) > Len(dirPath) /\ SubSeq(path, 1, Len(dirPath)) = dirPath

IsDirAt(f, path) == Len(path) = 0 \/ (path \in DOMAIN f /\ f[path].dir)
IsFileAt(f, path) == path \in DOMAIN f /\ ~f[path].dir

\* The effect of a sequence of file-system calls: the file system, whether a
\* call has thrown, and the calls that succeeded.
FsState(f, ok, log) == [fs |-> f, ok |-> ok, log |-> log]

Throw(st) == [st EXCEPT !.ok = FALSE]

\* mkdirSync(path, { recursive: true }): creates the missing ancestors and the
\* directory; throws when a name on the way is a file.
mkdirSync(st, path) ==
  IF ~st.ok THEN st
  ELSE IF \E k \in 1..Len(path) : IsFileAt(st.fs, SubSeq(path, 1, k)) THEN Throw(st)
  ELSE Let([new \in {{SubSeq(path, 1, k) : k \in 1..Len(path)} \ DOMAIN st.fs} |->
         [st EXCEPT
            !.fs = [q \in DOMAIN st.fs \cup new |-> IF q \in new THEN DirNode ELSE st.fs[q]],
            !.log = Append(st.log, [op |-> "mkdir", path |-> path, content |-> Null,
                                    from |-> Null])]])

\* writeFileSync(path, content): creates or replaces the file; throws when the
\* parent is not a directory or the path is a directory.  `from` is the source
\* content the data was made from (Null for generated data).
writeFileSync(st, path, content, from) ==
  IF ~st.ok THEN st
  ELSE IF ~IsDirAt(st.fs, Parent(path)) \/ IsDirAt(st.fs, path) THEN Throw(st)
  ELSE [st EXCEPT
          !.fs = [q \in DOMAIN st.fs \cup {path} |->
                    IF q = path THEN FileNode(content) ELSE st.fs[q]],
          !.log = Append(st.log, [op |-> "write", path |-> path, content |-> content,
                                  from |-> from])]

-----------------------------------------------------------------------------
(* Project Materializer: transformPackageJson, transformReadme, copyTemplateFiles *)

ProjectDetails(projectName, projectDescription, author) ==
  [projectName |-> projectName, projectDescription |-> projectDescription,
   author |-> author]

\* Mutant of DeleteIn: the whole section is emptied.
DeleteIn_WholeSection(pkg, section, name) ==
  IF Get(pkg, section).t = "obj" THEN Put(pkg, section, Obj(EmptyObj)) ELSE pkg

\* delete pkg[section]?.[name]
DeleteIn(pkg, section, name) ==
  Let([p \in {pkg} |-> IF Get(p, section).t = "obj"
                         THEN Put(p, section, Obj(Del(p[section].v, name)))
                         ELSE p])

\* JSON.stringify(obj): a key whose value is undefined is left out.
JsonStringify(o) ==
  Let([p \in {o} |-> Json([k \in {j \in DOMAIN p : p[j] # Undefined} |-> p[k]])])

\* Mutant of transformPackageJson: the version of the template is kept.
transformPackageJson_KeepVersion(content, pd, cust) ==
  LET p1 == Put(content.v, "name", pd.projectName)
      p2 == Put(p1, "description", pd.projectDescription)
      p3 == Put(p2, "author", pd.author)
  IN IF content.t # "json" THEN [ok |-> FALSE, v |-> Null]
     ELSE [ok |-> TRUE, v |-> JsonStringify(p3)]

\* transformPackageJson(content, projectDetails, customizations); ok is FALSE
\* when JSON.parse throws.
transformPackageJson(content, pd, cust) ==
  LET p1 == Put(content.v, "name", pd.projectName)
      p2 == Put(p1, "description", pd.projectDescription)
      p3 == Put(p2, "author", pd.author)
      p4 == Put(p3, "version", Str(<<"0", ".", "1", ".", "0">>))
      p5 == IF Get(cust, "includeAuth") = Bool(FALSE)
              THEN DeleteIn(DeleteIn(DeleteIn(DeleteIn(p4,
                     "dependencies", "jsonwebtoken"),
                     "dependencies", "bcryptjs"),
                     "devDependencies", "@types/jsonwebtoken"),
                     "devDependencies", "@types/bcryptjs")
              ELSE p4
      p6 == IF Get(cust, "includeRateLimiting") = Bool(FALSE)
              THEN DeleteIn(p5, "dependencies", "express-rate-limit")
              ELSE p5
      p7 == IF Get(cust, "includeStripe") = Bool(FALSE)
              THEN DeleteIn(DeleteIn(p6, "dependencies", "stripe"),
                            "dependencies", "@stripe/stripe-js")
              ELSE p6
  IN IF content.t # "json" THEN [ok |-> FALSE, v |-> Null]
     ELSE [ok |-> TRUE, v |-> JsonStringify(p7)]

ReadmeNoticeText ==
  <<">", " ", "G", "e", "n", "e", "r", "a", "t", "e", "d", " ", "f", "r", "o", "m", " ",
    "P", "r", "o", "j", "e", "c", "t", " ", "S", "t", "a", "r", "t", "e", "r", " ",
    "G", "u", "i", "d", "e", " ", "o", "n", " ">>

\* transformReadme(content, projectDetails); clock is new Date().toISOString().
transformReadme(content, pd, clock) ==
  Let([lines0 \in {Split(content.v, "\n")} |->
    Let([lines \in {IF StartsWith(lines0[1], <<"#">>)
           THEN [lines0 EXCEPT ![1] = <<"#", " ">> \o ToStr(pd.projectName)]
           ELSE lines0} |->
           LET notice == <<"\n">> \o ReadmeNoticeText \o Split(clock, "T")[1] \o <<"\n">>
           IN Text(Join(SliceTo(lines, 0, 2), <<"\n">>) \o notice
                   \o Join(SliceTo(lines, 2, Len(lines)), <<"\n">>))])])

s_package_json == <<"p", "a", "c", "k", "a", "g", "e", ".", "j", "s", "o", "n">>
s_README_md == <<"R", "E", "A", "D", "M", "E", ".", "m", "d">>
s_env_example == <<".", "e", "n", "v", ".", "e", "x", "a", "m", "p", "l", "e">>
s_node_modules == <<"n", "o", "d", "e", "_", "m", "o", "d", "u", "l", "e", "s">>
s_dist == <<"d", "i", "s", "t">>
s_coverage == <<"c", "o", "v", "e", "r", "a", "g", "e">>
s_dot_env == <<".", "e", "n", "v">>
s_package_lock == <<"p", "a", "c", "k", "a", "g", "e", "-", "l", "o", "c", "k", ".", "j", "s", "o", "n">>

\* Mutant of skipDirs: 'dist' is missing from the list.
skipDirs_NoDist ==
  { s_node_modules, <<".", "n", "e", "x", "t">>, <<"b", "u", "i", "l", "d">>,
    s_coverage, <<".", "p", "r", "i", "s", "m", "a", "-", "c", "a", "c", "h", "e">>,
    <<".", "p", "r", "i", "s", "m", "a", "-", "h", "o", "m", "e">> }

skipDirs ==
  { s_node_modules, <<".", "n", "e", "x", "t">>, s_dist, <<"b", "u", "i", "l", "d">>,
    s_coverage, <<".", "p", "r", "i", "s", "m", "a", "-", "c", "a", "c", "h", "e">>,
    <<".", "p", "r", "i", "s", "m", "a", "-", "h", "o", "m", "e">> }

\* Mutant of skipFiles: '.env.example' is skipped too.
skipFiles_AlsoEnvExample ==
  { s_dot_env, <<".", "e", "n", "v", ".", "l", "o", "c", "a", "l">>, s_package_lock,
    s_env_example }

skipFiles == { s_dot_env, <<".", "e", "n", "v", ".", "l", "o", "c", "a", "l">>, s_package_lock }

\* The body of copyRecursive's loop for a file entry: read, transform, write.
CopyFile(st, entry, dest, pd, cust, clock) ==
  Let([destPath \in {Append(dest, entry.name)} |->
    IF entry.name \in skipFiles THEN st
    ELSE IF entry.name = s_package_json
      THEN Let([pkg \in {transformPackageJson(entry.content, pd, cust)} |->
             IF pkg.ok THEN writeFileSync(st, destPath, pkg.v, entry.content) ELSE Throw(st)])
    ELSE IF entry.name = s_README_md
      THEN Let([readme \in {transformReadme(entry.content, pd, clock)} |->
             writeFileSync(st, destPath, readme, entry.content)])
    ELSE Let([copied \in {ReadThenWrite(entry.content)} |->
           writeFileSync(st, destPath, copied, entry.content)])])

\* copyRecursive(src, dest), src given by its directory listing; a throw ends it.
RECURSIVE copyRecursive(_, _, _, _, _, _)
copyRecursive(st, entries, dest, pd, cust, clock) ==
  IF Len(entries) = 0 \/ ~st.ok THEN st
  ELSE Let([e \in {<<Head(entries), Tail(entries)>>} |->
         LET entry == e[1]
         IN Let([st1 \in {IF entry.dir
                   THEN IF entry.name \in skipDirs THEN st
                        ELSE Let([destPath \in {Append(dest, entry.name)} |->
                               Let([made \in {mkdirSync(st, destPath)} |->
                                 copyRecursive(made, entry.children, destPath, pd, cust, clock)])])
                   ELSE CopyFile(st, entry, dest, pd, cust, clock)} |->
              copyRecursive(st1, e[2], dest, pd, cust, clock)])])

\* copyTemplateFiles(templateId, outputDir, projectDetails, customizations);
\* dirs holds the directories under TEMPLATES_DIR (readdirSync of a missing
\* one throws).
copyTemplateFiles(st, dirs, id, out, pd, cust, clock) ==
  Let([st1 \in {mkdirSync(st, out)} |->
    IF id \notin DOMAIN dirs THEN Throw(st1)
    ELSE copyRecursive(st1, dirs[id], out, pd, cust, clock)])

-----------------------------------------------------------------------------
(* Template trees, manifests and output directories the model draws from *)

s_w == <<"w">>
s_out == <<"o", "u", "t">>
s_src == <<"s", "r", "c">>
s_tests == <<"t", "e", "s", "t", "s">>

Ver(v) == Str(<<v>>)

\* A manifest like the api / saas templates': every package the generator
\* knows about is a runtime dependency.
ManifestFull ==
  [name |-> Str(<<"t", "p", "l">>), version |-> Str(<<"9", ".", "9">>),
   description |-> Str(<<"o", "l", "d">>), author |-> Str(<<"x">>),
   private |-> Bool(TRUE),
   dependencies |-> Obj([express |-> Ver("4"), stripe |-> Ver("1")]
                        @@ ("@stripe/stripe-js" :> Ver("2"))
                        @@ ("jsonwebtoken" :> Ver("9"))
                        @@ ("bcryptjs" :> Ver("3"))
                        @@ ("express-rate-limit" :> Ver("7"))),
   devDependencies |-> Obj([vitest |-> Ver("1")]
                           @@ ("@types/jsonwebtoken" :> Ver("9"))
                           @@ ("@types/bcryptjs" :> Ver("2")))]

\* A manifest without name, author, version or dependency sections.
ManifestBare == [scripts |-> Obj([dev |-> Str(<<"x">>)])]

\* A manifest that lists the Stripe packages as development dependencies.
ManifestDevStripe ==
  [name |-> Str(<<"t", "p", "l">>), version |-> Str(<<"1">>),
   dependencies |-> Obj([express |-> Ver("4")]),
   devDependencies |-> Obj([stripe |-> Ver("1")] @@ ("@stripe/stripe-js" :> Ver("2")))]

ManifestPool == {ManifestFull, ManifestBare, ManifestDevStripe}

s_logo == <<"l", "o", "g", "o">>

\* The first bytes of a PNG image: 0x89 'P' 'N'; not UTF-8.
PngHead == <<137, 80, 78>>

\* 'h' and U+00E9 in UTF-8.
Accented == <<104, 195, 169>>

ReadmeText == <<"#", " ", "T", "\n", "a", "\n", "b">>

\* A template directory with a manifest: excluded directories and files at the
\* top and below, a nested manifest and a nested readme.
TreeWithManifest(m) ==
  << File(s_dot_env, Text(<<"K", "=", "1">>)),
     File(s_env_example, Text(<<"K", "=">>)),
     File(s_README_md, Text(ReadmeText)),
     Dir(s_node_modules, << File(s_package_json, Json(ManifestBare)) >>),
     File(s_package_lock, Json(EmptyObj)),
     File(s_package_json, Json(m)),
     Dir(s_src, << Dir(s_dist, << File(<<"a">>, Text(<<"1">>)) >>),
                   File(<<"i">>, Text(<<"c", "o", "d", "e">>)) >>),
     Dir(s_tests, << File(s_README_md, Text(<<"#", " ", "t">>)),
                     File(s_package_json, Json(ManifestFull)) >>),
     Dir(<<"e">>, << >>),
     File(s_logo, Bytes(PngHead)) >>

\* A static template: no manifest; a file named like an excluded directory and
\* a directory named like an excluded file.
TreeStatic ==
  << Dir(s_dot_env, << File(<<"k">>, Text(<<"v">>)) >>),
     File(s_README_md, Text(<<"n", "o", " ", "h", "e", "a", "d">>)),
     File(s_coverage, Text(<<"9", "0">>)),
     File(<<"h">>, Bytes(Accented)) >>

\* The file system outside TEMPLATES_DIR before the run.
Cwd == <<s_w>>
OutPath == <<s_w, s_out>>

FsOf(nodes) == [q \in DOMAIN nodes \cup {Cwd} |-> IF q \in DOMAIN nodes THEN nodes[q] ELSE DirNode]

\* Nothing but the working directory.
FsEmpty == FsOf([q \in {} |-> DirNode])

\* ./out is left over from an earlier project: installed dependencies, a local
\* env file, a build, a stale manifest.
FsUsed ==
  FsOf((OutPath :> DirNode)
       @@ (<<s_w, s_out, s_node_modules>> :> DirNode)
       @@ (<<s_w, s_out, s_node_modules, <<"m">> >> :> FileNode(Text(<<"x">>)))
       @@ (<<s_w, s_out, s_dot_env>> :> FileNode(Text(<<"S", "=", "1">>)))
       @@ (<<s_w, s_out, s_package_json>> :> FileNode(Json(ManifestBare)))
       @@ (<<s_w, s_out, <<"z">> >> :> FileNode(Text(<<"z">>))))

\* ./out exists and holds a file named src, where the templates have a directory.
FsClash ==
  FsOf((OutPath :> DirNode) @@ (<<s_w, s_out, s_src>> :> FileNode(Text(<<"x">>))))

\* ./out exists and is empty.
FsEmptyOut == FsOf(OutPath :> DirNode)

FsPool == {FsEmpty, FsEmptyOut, FsUsed, FsClash}

ClockPool == { <<"2", "0", "2", "5", "-", "0", "1", "-", "0", "2", "T", "0", "3", ":", "0", "4", "Z">> }

-----------------------------------------------------------------------------
(* The materializer on its own: SpecCopy draws a template tree, the state of *)
(* the output directory, a generation plan, and applies copyTemplateFiles.   *)

s_T == <<"T">>

\* Readmes of one line, two lines, two lines and a final line break, three lines.
ReadmePool ==
  { <<"#", " ", "T">>, <<"#", " ", "T", "\n", "a">>, <<"#", " ", "T", "\n", "a", "\n">>,
    ReadmeText }

\* A template directory that holds a readme and nothing else.
TreeReadmeOnly(text) == << File(s_README_md, Text(text)) >>

CopyTreePool ==
  {TreeWithManifest(m) : m \in ManifestPool} \cup {TreeStatic}
    \cup {TreeReadmeOnly(r) : r \in ReadmePool}

CopyDetailsPool ==
  { ProjectDetails(n, Str(<<"d", "2">>), a) :
      n \in {Str(<<"a", "p", "p">>), Bool(TRUE)},
      a \in {Str(<<"m", "e">>), Str(<<>>), Undefined} }

FlagPool == {Undefined, Bool(TRUE), Bool(FALSE)}

CopyCustOf(st, au, rl_) ==
  LET c1 == IF st = Undefined THEN EmptyObj ELSE Put(EmptyObj, "includeStripe", st)
      c2 == IF au = Undefined THEN c1 ELSE Put(c1, "includeAuth", au)
  IN IF rl_ = Undefined THEN c2 ELSE Put(c2, "includeRateLimiting", rl_)

CopyCustPool ==
  {CopyCustOf(st, au, rl_) : st \in FlagPool, au \in FlagPool, rl_ \in {Undefined, Bool(FALSE)}}

InitCopy ==
  /\ argv = <<>>
  /\ catalogFile = Null
  /\ config = Null
  /\ \E tree \in CopyTreePool : tplDirs = (s_T :> tree)
  /\ now \in ClockPool
  /\ fs0 \in FsPool
  /\ fs = fs0
  /\ writes = <<>>
  /\ pc = "copy"
  /\ exitCode = -1
  /\ rl = "null"
  /\ prompts = <<>>
  /\ console = <<>>
  /\ lastAnswer = Undefined
  /\ args = EmptyObj
  /\ templateId = Str(s_T)
  /\ template = Undefined
  /\ projectDetails \in CopyDetailsPool
  /\ customizations \in CopyCustPool
  /\ custIdx = 0
  /\ outputDir \in {OutPath, <<s_w, <<"n", "e", "w">>, <<"p">> >>}
  /\ envContent = Undefined
  /\ secrets = <<>>

\* One call of copyTemplateFiles: "copied" when it returns, "threw" when a
\* file-system call or JSON.parse throws.
Materialize ==
  /\ pc = "copy"
  /\ LET st == copyTemplateFiles(FsState(fs, TRUE, writes), tplDirs, templateId.v,
                                 outputDir, projectDetails, customizations, now)
     IN /\ fs' = st.fs
        /\ writes' = st.log
        /\ pc' = IF st.ok THEN "copied" ELSE "threw"
  /\ UNCHANGED <<argv, catalogFile, config, tplDirs, now, fs0, exitCode, rl, prompts, console,
                 lastAnswer, args, templateId, template, projectDetails, customizations, custIdx,
                 outputDir, envContent, secrets>>

NextCopy == Materialize

SpecCopy == InitCopy /\ [][NextCopy]_vars

-----------------------------------------------------------------------------
(* Claims about the materializer *)

\* The package manifests written so far: positions in the log of writes.
ManifestWrites ==
  {i \in 1..Len(writes) : writes[i].op = "write" /\ BaseName(writes[i].path) = s_package_json}

\* C4: every materialized package manifest has name, description and author
\* equal to projectDetails' and version '0.1.0', whatever the template's
\* manifest had in those fields.
C4_ManifestFields ==
  \A i \in ManifestWrites :
    LET m == writes[i].content.v
    IN /\ IsFileAt(fs, writes[i].path)
       /\ fs[writes[i].path].content = writes[i].content
       /\ Get(m, "name") = projectDetails.projectName
       /\ Get(m, "description") = projectDetails.projectDescription
       /\ Get(m, "author") = projectDetails.author
       /\ Get(m, "version") = Str(<<"0", ".", "1", ".", "0">>)

\* C4 witness: a top-level and a nested manifest were materialized from
\* manifests that had another name, version and author.
C4_Witness ==
  /\ pc = "copied"
  /\ Cardinality(ManifestWrites) = 2
  /\ \A i \in ManifestWrites :
       /\ Get(writes[i].from.v, "name") = Str(<<"t", "p", "l">>)
       /\ Get(writes[i].from.v, "version") # Str(<<"0", ".", "1", ".", "0">>)
       /\ Get(writes[i].from.v, "author") = Str(<<"x">>)
  /\ projectDetails.projectName = Str(<<"a", "p", "p">>)
  /\ projectDetails.author = Str(<<"m", "e">>)

StripePackages == {"stripe", "@stripe/stripe-js"}

DependencySections == {"dependencies", "devDependencies"}

\* obj[section][name], undefined when the section or the entry is missing
DepEntry(m, section, name) ==
  IF Get(m, section).t = "obj" THEN Get(m[section].v, name) ELSE Undefined

\* C5 (as stated): with includeStripe false the materialized manifest has no
\* key equal to a Stripe package name that the source manifest has; with
\* includeStripe true or absent every such entry is preserved.
C5_StripeRemoval ==
  \A i \in ManifestWrites :
    LET src == writes[i].from.v
        out == writes[i].content.v
    IN \A k \in StripePackages :
         (\E sec \in DependencySections : DepEntry(src, sec, k) # Undefined) =>
            IF Get(customizations, "includeStripe") = Bool(FALSE)
              THEN \A sec \in DependencySections : DepEntry(out, sec, k) = Undefined
              ELSE \A sec \in DependencySections : DepEntry(out, sec, k) = DepEntry(src, sec, k)

\* C5, for the dependencies section alone: the claim holds of the code.
C5_StripeRemovalInDependencies ==
  \A i \in ManifestWrites :
    LET src == writes[i].from.v
        out == writes[i].content.v
    IN \A k \in StripePackages :
         DepEntry(src, "dependencies", k) # Undefined =>
            IF Get(customizations, "includeStripe") = Bool(FALSE)
              THEN DepEntry(out, "dependencies", k) = Undefined
              ELSE /\ DepEntry(out, "dependencies", k) = DepEntry(src, "dependencies", k)
                   /\ DepEntry(out, "devDependencies", k) = DepEntry(src, "devDependencies", k)

\* The dependency entries the specification ties to each customization.
StatedTiedPackages ==
  [includeAuth |-> {"jsonwebtoken", "bcryptjs", "@types/jsonwebtoken", "@types/bcryptjs"},
   includeRateLimiting |-> {"express-rate-limit"},
   includeStripe |-> {"stripe", "@stripe/stripe-js"}]

\* The entries whose removal the customizations allow.
Removable ==
  UNION { StatedTiedPackages[c] :
            c \in {d \in DOMAIN StatedTiedPackages : Get(customizations, d) = Bool(FALSE)} }

RewrittenFields == {"name", "description", "author", "version"}

\* C29: a materialized manifest differs from its source only in name,
\* description, author and version and in dependency entries tied to a
\* customization that is exactly false: every other top-level key is there
\* with its source value, no key is added, every dependency entry that stays
\* has its source value, and every one that is gone is tied to a false flag;
\* with no flag false the dependency sections are the source's.
C29_ManifestFrame ==
  \A i \in ManifestWrites :
    LET src == writes[i].from.v
        out == writes[i].content.v
    IN /\ DOMAIN out \ RewrittenFields = DOMAIN src \ RewrittenFields
       /\ \A k \in DOMAIN src \ (RewrittenFields \cup DependencySections) : out[k] = src[k]
       /\ \A sec \in DependencySections \cap DOMAIN src :
            IF src[sec].t = "obj"
              THEN /\ out[sec].t = "obj"
                   /\ DOMAIN out[sec].v \subseteq DOMAIN src[sec].v
                   /\ \A n \in DOMAIN out[sec].v : out[sec].v[n] = src[sec].v[n]
                   /\ DOMAIN src[sec].v \ DOMAIN out[sec].v \subseteq Removable
              ELSE out[sec] = src[sec]
       /\ Removable = {} => \A sec \in DependencySections \cap DOMAIN src : out[sec] = src[sec]

\* C29 witness: with includeAuth false and includeStripe not false, a manifest
\* lost jsonwebtoken and @types/bcryptjs and kept express, stripe, vitest and
\* its private flag.
C29_Witness ==
  /\ pc = "copied"
  /\ Get(customizations, "includeAuth") = Bool(FALSE)
  /\ Get(customizations, "includeStripe") # Bool(FALSE)
  /\ \E i \in ManifestWrites :
       /\ writes[i].from.v = ManifestFull
       /\ DepEntry(writes[i].content.v, "dependencies", "jsonwebtoken") = Undefined
       /\ DepEntry(writes[i].content.v, "devDependencies", "@types/bcryptjs") = Undefined
       /\ DepEntry(writes[i].content.v, "dependencies", "express") = Ver("4")
       /\ DepEntry(writes[i].content.v, "dependencies", "stripe") = Ver("1")
       /\ DepEntry(writes[i].content.v, "devDependencies", "vitest") = Ver("1")
       /\ Get(writes[i].content.v, "private") = Bool(TRUE)

ExcludedDirNames ==
  { s_node_modules, <<".", "n", "e", "x", "t">>, s_dist, <<"b", "u", "i", "l", "d">>,
    s_coverage, <<".", "p", "r", "i", "s", "m", "a", "-", "c", "a", "c", "h", "e">>,
    <<".", "p", "r", "i", "s", "m", "a", "-", "h", "o", "m", "e">> }

ExcludedFileNames ==
  { s_dot_env, <<".", "e", "n", "v", ".", "l", "o", "c", "a", "l">>, s_package_lock }

\* A directory or file of the output directory that bears an excluded name.
IsExcludedEntry(f, path) ==
  /\ path \in DOMAIN f
  /\ IsUnder(path, outputDir)
  /\ \/ f[path].dir /\ BaseName(path) \in ExcludedDirNames
     \/ ~f[path].dir /\ BaseName(path) \in ExcludedFileNames

\* C10 (as stated): after materialization, whatever the output directory held
\* before, it contains at no depth a directory or file with an excluded name.
C10_NoExcludedEntries ==
  pc = "copied" => \A path \in DOMAIN fs : ~IsExcludedEntry(fs, path)

\* C10 (amended): materialization creates no directory and writes no file
\* with an excluded name, at any depth: every such entry of the output
\* directory was there before, unchanged; an output directory that held none
\* before holds none afterwards.
C10_NoExcludedCreated ==
  /\ \A path \in DOMAIN fs :
       IsExcludedEntry(fs, path) => path \in DOMAIN fs0 /\ fs0[path] = fs[path]
  /\ \A i \in 1..Len(writes) :
       IsUnder(writes[i].path, outputDir) =>
         IF writes[i].op = "mkdir"
           THEN BaseName(writes[i].path) \notin ExcludedDirNames
           ELSE BaseName(writes[i].path) \notin ExcludedFileNames

\* C10 witness: a tree with excluded entries at the top and below was copied
\* into a directory that did not exist, and the files next to them arrived.
C10_Witness ==
  /\ pc = "copied"
  /\ outputDir \notin DOMAIN fs0
  /\ \E e \in Range(tplDirs[templateId.v]) : e.dir /\ e.name = s_node_modules
  /\ \E e \in Range(tplDirs[templateId.v]) : ~e.dir /\ e.name = s_dot_env
  /\ \E e \in Range(tplDirs[templateId.v]) :
       e.name = s_src /\ \E c \in Range(e.children) : c.dir /\ c.name = s_dist
  /\ IsFileAt(fs, outputDir \o <<s_src, <<"i">> >>)
  /\ \A path \in DOMAIN fs : ~IsExcludedEntry(fs, path)

\* The entries of a template tree, each with its path relative to the
\* template directory and whether it is a directory.
RECURSIVE SourceEntries(_, _)
SourceEntries(entries, prefix) ==
  IF Len(entries) = 0 THEN {}
  ELSE LET e == Head(entries)
           path == Append(prefix, e.name)
       IN {[path |-> path, dir |-> e.dir]}
            \cup (IF e.dir THEN SourceEntries(e.children, path) ELSE {})
            \cup SourceEntries(Tail(entries), prefix)

\* A source entry that is to be mirrored: no directory on its path, itself
\* included, has an excluded directory name, and a file's name is not an
\* excluded file name.
IsMirrored(e) ==
  /\ \A k \in 1..(Len(e.path) - 1) : e.path[k] \notin ExcludedDirNames
  /\ IF e.dir THEN BaseName(e.path) \notin ExcludedDirNames
              ELSE BaseName(e.path) \notin ExcludedFileNames

\* The entries below the output directory, relative to it.
OutputEntries(f) ==
  { [path |-> SubSeq(q, Len(outputDir) + 1, Len(q)), dir |-> f[q].dir] :
      q \in {r \in DOMAIN f : IsUnder(r, outputDir)} }

AbsentOrEmptyBefore ==
  /\ \A q \in DOMAIN fs0 : ~IsUnder(q, outputDir)
  /\ outputDir \in DOMAIN fs0 => fs0[outputDir].dir

\* C11: after a materialization into an output directory that was absent or
\* empty, the entries below the output directory are exactly the source
\* entries none of whose directories has an excluded directory name and whose
\* file name is not excluded, directories as directories (empty ones too) and
\* files as files; the output directory itself exists.
C11_TreeMirroring ==
  pc = "copied" /\ AbsentOrEmptyBefore =>
    /\ IsDirAt(fs, outputDir)
    /\ OutputEntries(fs) = {e \in SourceEntries(tplDirs[templateId.v], <<>>) : IsMirrored(e)}

\* C11 witness: a tree with an empty directory, an excluded directory below a
\* copied one and excluded files was mirrored into an existing empty directory.
C11_Witness ==
  /\ pc = "copied"
  /\ AbsentOrEmptyBefore
  /\ outputDir \in DOMAIN fs0
  /\ [path |-> <<s_src, s_dist, <<"a">> >>, dir |-> FALSE]
       \in SourceEntries(tplDirs[templateId.v], <<>>)
  /\ IsDirAt(fs, Append(outputDir, <<"e">>))
  /\ IsFileAt(fs, outputDir \o <<s_src, <<"i">> >>)
  /\ outputDir \o <<s_src, s_dist>> \notin DOMAIN fs
  /\ Append(outputDir, s_dot_env) \notin DOMAIN fs

\* The files written so far: positions in the log of writes.
FileWrites == {i \in 1..Len(writes) : writes[i].op = "write"}

ReadmeWrites == {i \in FileWrites : BaseName(writes[i].path) = s_README_md}

\* C12 (as stated): a README.md below a subdirectory of the template is
\* copied with content identical to its source.
C12_NestedReadmeVerbatim ==
  \A i \in ReadmeWrites :
    Len(writes[i].path) > Len(outputDir) + 1 => writes[i].content = writes[i].from

\* C13 (as stated): every copied file that is neither a package manifest nor
\* a readme has in the output exactly the bytes of its source.
C13_VerbatimBytes ==
  \A i \in FileWrites :
    BaseName(writes[i].path) \notin {s_package_json, s_README_md} =>
      writes[i].content = writes[i].from

\* The notice line as the specification words it, for the date of the clock.
StatedNotice == ReadmeNoticeText \o SubSeq(now, 1, 10)

\* The readme the specification describes for the source lines: the first
\* line replaced, the notice line after the second line (after the last line
\* of a shorter readme), all other lines in place.
StatedReadme(lines, name) ==
  Join(<< <<"#", " ">> \o name >> \o SubSeq(lines, 2, IF Len(lines) < 2 THEN Len(lines) ELSE 2)
         \o <<StatedNotice>> \o SubSeq(lines, 3, Len(lines)),
       <<"\n">>)

\* C14 (as stated): a top-level readme whose first line is a heading is
\* written as its source with the first line replaced by '# <projectName>'
\* and one notice line inserted after the second line, nothing else changed,
\* for readmes of fewer than two lines too.
C14_ReadmeTransform ==
  \A i \in ReadmeWrites :
    /\ Len(writes[i].path) = Len(outputDir) + 1
    /\ StartsWith(writes[i].from.v, <<"#">>)
    => writes[i].content
         = Text(StatedReadme(Split(writes[i].from.v, "\n"), ToStr(projectDetails.projectName)))

-----------------------------------------------------------------------------
(* Interaction Collector: flags, catalog lookup, paths *)

s_api == <<"a", "p", "i">>
s_saas == <<"s", "a", "a", "s">>
s_mobile == <<"m", "o", "b", "i", "l", "e">>
s_about == <<"a", "b", "o", "u", "t">>
s_api_service == <<"a", "p", "i", "-", "s", "e", "r", "v", "i", "c", "e">>
s_saas_level_1 == <<"s", "a", "a", "s", "-", "l", "e", "v", "e", "l", "-", "1">>
s_mobile_app == <<"m", "o", "b", "i", "l", "e", "-", "a", "p", "p">>
s_about_me_page == <<"a", "b", "o", "u", "t", "-", "m", "e", "-", "p", "a", "g", "e">>
s_template == <<"t", "e", "m", "p", "l", "a", "t", "e">>
s_defaults == <<"d", "e", "f", "a", "u", "l", "t", "s">>
s_name == <<"n", "a", "m", "e">>
s_output == <<"o", "u", "t", "p", "u", "t">>

\* parseArgs(): every argument that starts with '--' binds the text before its
\* first '=' to the text between its first and second '=', or to true when it
\* has no '='; later arguments replace earlier ones.
RECURSIVE parseArgsFrom(_, _)
parseArgsFrom(argList, parsed) ==
  IF Len(argList) = 0 THEN parsed
  ELSE LET arg == Head(argList)
           parts == Split(Slice(arg, 2), "=")
           value == IF Len(parts) >= 2 THEN Str(parts[2]) ELSE Bool(TRUE)
       IN parseArgsFrom(Tail(argList),
                        IF StartsWith(arg, <<"-", "-">>) THEN Put(parsed, parts[1], value)
                        ELSE parsed)

parseArgs(argList) == parseArgsFrom(argList, EmptyObj)

\* Mutant of shortNames: 'api' is mapped to itself.
shortNames_ApiUnmapped ==
  (s_api :> s_api) @@ (s_saas :> s_saas_level_1)
    @@ (s_mobile :> s_mobile_app) @@ (s_about :> s_about_me_page)

shortNames ==
  (s_api :> s_api_service) @@ (s_saas :> s_saas_level_1)
    @@ (s_mobile :> s_mobile_app) @@ (s_about :> s_about_me_page)

\* shortNames[x]: the property named by the string of x, or undefined
ShortNameOf(x) ==
  IF ToStr(x) \in DOMAIN shortNames THEN Str(shortNames[ToStr(x)]) ELSE Undefined

\* Mutant of TemplateOf: an id the catalog lacks yields its first entry.
TemplateOf_FirstWhenMissing(cfg, id) ==
  IF \E i \in 1..Len(cfg.templates) : cfg.templates[i].id = ToStr(id)
    THEN cfg.templates[CHOOSE i \in 1..Len(cfg.templates) : cfg.templates[i].id = ToStr(id)].def
    ELSE cfg.templates[1].def

\* this.config.templates[id]: the definition stored under the string of id
TemplateOf(cfg, id) ==
  IF "templates" \notin DOMAIN cfg THEN Undefined
  ELSE IF \E i \in 1..Len(cfg.templates) : cfg.templates[i].id = ToStr(id)
    THEN cfg.templates[CHOOSE i \in 1..Len(cfg.templates) : cfg.templates[i].id = ToStr(id)].def
    ELSE Undefined

\* resolve(process.cwd(), p): '.' and empty names dropped, '..' steps up, a
\* leading '/' starts from the root.
RECURSIVE ResolveFrom(_, _)
ResolveFrom(base, names) ==
  IF Len(names) = 0 THEN base
  ELSE LET n == Head(names)
       IN ResolveFrom(IF n = <<>> \/ n = <<".">> THEN base
                      ELSE IF n = <<".", ".">> THEN SubSeq(base, 1, Len(base) - 1)
                      ELSE Append(base, n),
                      Tail(names))

Resolve(cwd, p) ==
  ResolveFrom(IF StartsWith(p, <<"/">>) THEN <<>> ELSE cwd, Split(p, "/"))

\* Mutant of DefaultProjectName: the bare template id.
DefaultProjectName_NoPrefix(id) == ToStr(id)

\* `my-${templateId}`
DefaultProjectName(id) == <<"m", "y", "-">> \o ToStr(id)

\* `A ${templateId} project`
DefaultDescription(id) == <<"A", " ">> \o ToStr(id) \o <<" ", "p", "r", "o", "j", "e", "c", "t">>

\* `./${projectName}`
DefaultOutput(projectName) == <<".", "/">> \o ToStr(projectName)

\* The schema entries of a template: Object.entries(template.customizations)
CustEntries(tpl) == IF Truthy(tpl.customizations) THEN tpl.customizations.v ELSE <<>>

\* Mutant of DefaultCustomizationsFrom: only the first schema entry is bound.
DefaultCustomizationsFrom_FirstOnly(entries, cust) ==
  IF Len(entries) = 0 THEN cust
  ELSE Put(cust, Head(entries).key, Head(entries).default)

\* for (const [key, config] of ...) customizations[key] = config.default
RECURSIVE DefaultCustomizationsFrom(_, _)
DefaultCustomizationsFrom(entries, cust) ==
  IF Len(entries) = 0 THEN cust
  ELSE DefaultCustomizationsFrom(Tail(entries),
                                 Put(cust, Head(entries).key, Head(entries).default))

\* Mutant of Generation: .env.example is synthesized and written even when
\* the copy threw.
Generation_EnvDespiteFailure(st, dirs, id, tpl, out, pd, cust, clock, rnd) ==
  LET st1 == copyTemplateFiles(st, dirs, ToStr(id), out, pd, cust, clock)
      env == generateEnvFile(tpl, cust, rnd)
      st2 == IF Truthy(env)
               THEN writeFileSync([st1 EXCEPT !.ok = TRUE], Append(out, s_env_example),
                                  Text(env.v), Null)
               ELSE st1
  IN [st |-> [st2 EXCEPT !.ok = st1.ok], env |-> env, rnd |-> rnd]

\* Mutant of Generation: a .env.example the copy produced is kept, the
\* synthesized content is written only when there is none.
Generation_KeepCopiedEnv(st, dirs, id, tpl, out, pd, cust, clock, rnd) ==
  LET st1 == copyTemplateFiles(st, dirs, ToStr(id), out, pd, cust, clock)
      env == generateEnvFile(tpl, cust, rnd)
  IN IF ~st1.ok THEN [st |-> st1, env |-> Undefined, rnd |-> <<>>]
     ELSE [st |-> IF Truthy(env) /\ Append(out, s_env_example) \notin DOMAIN st1.fs
                    THEN writeFileSync(st1, Append(out, s_env_example), Text(env.v), Null)
                    ELSE st1,
           env |-> env, rnd |-> rnd]

\* Everything after the plan is resolved, the same in both modes:
\* copyTemplateFiles, generateEnvFile with the randomBytes outcomes rnd, and
\* the write of .env.example when there is content.  A throw ends it.
Generation(st, dirs, id, tpl, out, pd, cust, clock, rnd) ==
  Let([st1 \in {copyTemplateFiles(st, dirs, ToStr(id), out, pd, cust, clock)} |->
    IF ~st1.ok THEN [st |-> st1, env |-> Undefined, rnd |-> <<>>]
    ELSE Let([env \in {generateEnvFile(tpl, cust, rnd)} |->
           [st |-> IF Truthy(env)
                     THEN writeFileSync(st1, Append(out, s_env_example), Text(env.v), Null)
                     ELSE st1,
            env |-> env, rnd |-> rnd]])])

-----------------------------------------------------------------------------
(* Catalogs, template directories and command lines the runs are drawn from *)

CustSpec(key, type, options, default) ==
  [key |-> key, type |-> type, options |-> options, default |-> default]

s_email == <<"e", "m", "a", "i", "l">>
s_pg == <<"p", "g">>
s_lite == <<"l", "i", "t", "e">>

DefApiService ==
  TemplateDef(<<"A", "P", "I">>,
    Obj(<< CustSpec("database", "select", <<s_pg, s_lite>>, Str(s_pg)),
           CustSpec("includeAuth", "boolean", <<>>, Bool(TRUE)) >>),
    Arr(<< EnvVarSpec(s_DATABASE_URL, TRUE, Undefined, Str(<<"p", "g", ":", "/", "/">>)),
           EnvVarSpec(s_JWT_SECRET, TRUE, Undefined, Undefined),
           EnvVarSpec(s_PORT, FALSE, Str(<<"3", "0">>), Undefined) >>))

DefSaas ==
  TemplateDef(<<"S", "a", "a", "S">>,
    Obj(<< CustSpec("authProviders", "multiselect", <<s_github, s_google, s_email>>,
                    Arr(<<s_github>>)),
           CustSpec("includeStripe", "boolean", <<>>, Bool(TRUE)) >>),
    Arr(<< EnvVarSpec(s_GITHUB_ID, TRUE, Undefined, Str(<<"i", "d">>)),
           EnvVarSpec(s_GITHUB_SECRET, FALSE, Undefined, Str(<<"g", "s">>)),
           EnvVarSpec(s_GOOGLE_CLIENT_ID, FALSE, Str(<<"d">>), Str(<<"e">>)),
           EnvVarSpec(s_STRIPE_SECRET_KEY, TRUE, Undefined, Str(<<"s", "k">>)) >>))

\* A variant: a customization of a type the generator does not prompt for,
\* Stripe off by default.
DefSaasPlain ==
  TemplateDef(<<"S", "a", "a", "S">>,
    Obj(<< CustSpec("theme", "text", <<>>, Str(<<"d", "a", "r", "k">>)),
           CustSpec("includeStripe", "boolean", <<>>, Bool(FALSE)) >>),
    Arr(<< EnvVarSpec(s_STRIPE_SECRET_KEY, TRUE, Undefined, Str(<<"s", "k">>)),
           EnvVarSpec(s_JWT_SECRET, TRUE, Undefined, Undefined) >>))

\* An empty customization schema and an empty envVars list.
DefMobile == TemplateDef(<<"M", "o", "b">>, Obj(<<>>), Arr(<<>>))

\* Neither customizations nor envVars.
DefAbout == TemplateDef(<<"A", "b", "o", "u", "t">>, Undefined, Undefined)

Entry(id, def) == [id |-> id, def |-> def]

CatalogFull ==
  [templates |-> << Entry(s_api_service, DefApiService), Entry(s_saas_level_1, DefSaas),
                    Entry(s_mobile_app, DefMobile), Entry(s_about_me_page, DefAbout) >>,
   defaults |-> [author |-> Str(<<"Y", "o", "u">>)]]

\* A catalog without api-service and mobile-app, and without a default author.
CatalogSmall ==
  [templates |-> << Entry(s_about_me_page, DefAbout), Entry(s_saas_level_1, DefSaasPlain) >>,
   defaults |-> [author |-> Undefined]]

CatalogPool == {CatalogFull, CatalogSmall}

\* A catalog file that parses but has no templates collection.
CatalogNoTemplates == [defaults |-> [author |-> Str(<<"Y", "o", "u">>)]]

\* No file at TEMPLATES_CONFIG.
Missing == [t |-> "missing", v |-> <<>>]

\* TEMPLATES_CONFIG as the process finds it: a catalog, a JSON text without
\* templates, a text that is not JSON, or no file.
CatalogFilePool ==
  {Json(c) : c \in CatalogPool} \cup {Json(CatalogNoTemplates), Text(<<"{">>), Missing}

TemplateDirs ==
  (s_api_service :> TreeWithManifest(ManifestFull))
    @@ (s_saas_level_1 :> TreeWithManifest(ManifestDevStripe))
    @@ (s_mobile_app :> TreeWithManifest(ManifestBare))
    @@ (s_about_me_page :> TreeStatic)

Flag(key) == <<"-", "-">> \o key
FlagValue(key, value) == <<"-", "-">> \o key \o <<"=">> \o value

s_nope == <<"n", "o", "p", "e">>
s_cool == <<"c", "o", "o", "l">>

TemplateIdsAndAliases ==
  { s_api, s_api_service, s_saas, s_saas_level_1, s_mobile, s_mobile_app, s_about,
    s_about_me_page }

\* --template: absent, an alias, a full id, an unknown id, no value, empty value
TemplateArgPool ==
  { <<>>, <<Flag(s_template)>>, <<FlagValue(s_template, <<>>)>>,
    <<FlagValue(s_template, s_nope)>> }
    \cup { <<FlagValue(s_template, x)>> : x \in TemplateIdsAndAliases }

NameArgPool ==
  { <<>>, <<Flag(s_name)>>, <<FlagValue(s_name, <<>>)>>, <<FlagValue(s_name, s_cool)>> }

OutputArgPool == { <<>>, <<FlagValue(s_output, s_out)>> }

\* Non-interactive command lines carry --defaults; interactive ones do not
\* (and --name, which interactive mode never reads, appears with one of them).
ArgvPool ==
  { t \o n \o <<Flag(s_defaults)>> \o o :
      t \in TemplateArgPool, n \in NameArgPool, o \in OutputArgPool }
    \cup { o \o t : t \in TemplateArgPool, o \in OutputArgPool }
    \cup { <<FlagValue(s_name, s_cool), <<"x">>, FlagValue(s_template, s_saas)>> }

-----------------------------------------------------------------------------
(* The run *)

Init ==
  /\ argv \in ArgvPool
  /\ catalogFile \in CatalogFilePool
  /\ config = Null
  /\ tplDirs = TemplateDirs
  /\ now \in ClockPool
  /\ fs0 \in FsPool
  /\ fs = fs0
  /\ writes = <<>>
  /\ pc = "construct"
  /\ exitCode = -1
  /\ rl = "null"
  /\ prompts = <<>>
  /\ console = <<>>
  /\ lastAnswer = Undefined
  /\ args = EmptyObj
  /\ templateId = Undefined
  /\ template = Undefined
  /\ projectDetails = Undefined
  /\ customizations = EmptyObj
  /\ custIdx = 0
  /\ outputDir = <<>>
  /\ envContent = Undefined
  /\ secrets = <<>>

\* Mutant of loadConfig: a file that cannot be read or parsed yields a
\* built-in catalog instead of a failure.
loadConfig_FallbackCatalog(file) ==
  [ok |-> TRUE, v |-> IF file.t = "json" THEN file.v ELSE CatalogSmall]

\* loadConfig(): readFileSync and JSON.parse of TEMPLATES_CONFIG; ok is FALSE
\* when either throws.
loadConfig(file) ==
  IF file.t = "json" THEN [ok |-> TRUE, v |-> file.v] ELSE [ok |-> FALSE, v |-> Null]

\* new TemplateGenerator(): the constructor loads the catalog; a failure is
\* printed and the process exits with status 1.
Construct ==
  /\ pc = "construct"
  /\ IF loadConfig(catalogFile).ok
       THEN /\ config' = loadConfig(catalogFile).v
            /\ pc' = "start"
            /\ UNCHANGED <<console, exitCode>>
       ELSE /\ console' = <<"Error loading template config:">>
            /\ pc' = "exited"
            /\ exitCode' = 1
            /\ UNCHANGED config
  /\ UNCHANGED <<argv, catalogFile, tplDirs, now, fs0, fs, writes, rl, prompts, lastAnswer,
                 args, templateId, template, projectDetails, customizations, custIdx,
                 outputDir, envContent, secrets>>

\* this.config.templates is there to be indexed or listed; reading a property
\* of undefined throws a TypeError.
HasTemplates(cfg) == "templates" \in DOMAIN cfg

\* The run from copyTemplateFiles to its end, in either mode: the files, the
\* env file, the closing message; a throw is caught at the top level, which
\* prints it and exits 1.  closing is the state of the line reader afterwards.
Generate(con, closing) ==
  \E rnd \in EnvDraws(template', customizations') :
    \E g \in { Generation(FsState(fs, TRUE, writes), tplDirs, templateId', template',
                          outputDir', projectDetails', customizations', now, rnd) } :
       /\ fs' = g.st.fs
       /\ writes' = g.st.log
       /\ envContent' = g.env
       /\ secrets' = g.rnd
       /\ rl' = closing
       /\ pc' = IF g.st.ok THEN "done" ELSE "exited"
       /\ exitCode' = IF g.st.ok THEN 0 ELSE 1
       /\ console' = con \o <<IF g.st.ok THEN "Done" ELSE "Error:">>

\* run() with --defaults: runNonInteractive(args)
RunNonInteractive ==
  /\ pc = "start"
  /\ \E a \in {parseArgs(argv)} :
     \E t \in {Get(a, s_template)} :
     \E id \in {OrElse(OrElse(ShortNameOf(t), t), Str(s_api_service))} :
        /\ Truthy(Get(a, s_defaults))
        /\ args' = a
        /\ templateId' = id
        /\ IF ~HasTemplates(config)
             THEN /\ template' = Undefined
                  /\ console' = <<"Error:">>
                  /\ pc' = "exited"
                  /\ exitCode' = 1
                  /\ UNCHANGED <<fs, writes, rl, projectDetails, customizations, outputDir,
                                 envContent, secrets>>
             ELSE \E tpl \in {TemplateOf(config, id)} :
                  /\ template' = tpl
                  /\ IF tpl = Undefined
                       THEN /\ console' = <<"Template not found">>
                            /\ pc' = "exited"
                            /\ exitCode' = 1
                            /\ UNCHANGED <<fs, writes, rl, projectDetails, customizations,
                                           outputDir, envContent, secrets>>
                       ELSE \E projectName \in {OrElse(Get(a, s_name),
                                                        Str(DefaultProjectName(id)))} :
                            \E defaultOut \in {Str(DefaultOutput(projectName))} :
                            \E out \in {Resolve(Cwd, ToStr(OrElse(Get(a, s_output),
                                                                  defaultOut)))} :
                            \E pd \in {ProjectDetails(projectName, Str(DefaultDescription(id)),
                                                       config.defaults.author)} :
                            \E cust \in {DefaultCustomizationsFrom(CustEntries(tpl),
                                                                   EmptyObj)} :
                               /\ projectDetails' = pd
                               /\ customizations' = cust
                               /\ outputDir' = out
                               /\ Generate(<<"Generating">>, rl)
  /\ UNCHANGED <<argv, catalogFile, config, tplDirs, now, fs0, prompts, lastAnswer, custIdx>>

-----------------------------------------------------------------------------
(* Interactive mode: the prompt helpers *)

\* prompt(question, defaultValue = ''): answer.trim() || defaultValue
prompt(answer, defaultValue) ==
  OrElse(Str(Trim(answer)), IF defaultValue = Undefined THEN Str(<<>>) ELSE defaultValue)

\* defaultValue ? ` (${defaultValue})` : '': the default a question shows
DefaultText(defaultValue) == IF Truthy(defaultValue) THEN ToStr(defaultValue) ELSE <<>>

\* Mutant of confirm: an empty answer is taken as yes whatever the default.
confirm_EmptyIsYes(answer, defaultValue) ==
  LET a == prompt(answer, Undefined)
  IN IF ~Truthy(a) THEN Bool(TRUE)
     ELSE Bool(StartsWith(ToLowerCase(a.v), <<"y">>))

\* confirm(question, defaultValue = true)
confirm(answer, defaultValue) ==
  Let([a \in {prompt(answer, Undefined)} |->
    IF ~Truthy(a) THEN (IF defaultValue = Undefined THEN Bool(TRUE) ELSE defaultValue)
    ELSE Bool(StartsWith(ToLowerCase(a.v), <<"y">>))])

\* index >= 0 && index < length, for index = parseInt(text, 10) - 1
ValidIndex(text, length) ==
  Let([n \in {ParseInt(text)} |-> ~n.nan /\ n.n - 1 >= 0 /\ n.n - 1 < length])

\* select(question, options, defaultValue)
select(answer, options, defaultValue) ==
  Let([a \in {prompt(answer, Undefined)} |->
    IF ~Truthy(a) THEN defaultValue
    ELSE IF ValidIndex(a.v, Len(options)) THEN Str(options[ParseInt(a.v).n])
    ELSE defaultValue])

\* options.indexOf(x) + 1
PositionOf(options, x) ==
  IF \E i \in 1..Len(options) : options[i] = x
    THEN CHOOSE i \in 1..Len(options) : options[i] = x /\ \A j \in 1..(i - 1) : options[j] # x
    ELSE 0

\* defaults.map((d) => options.indexOf(d) + 1).join(',')
MultiSelectDefaultText(options, defaults) ==
  Join([i \in 1..Len(defaults) |-> NumToStr(PositionOf(options, defaults[i]))], <<",">>)

\* indices.filter((i) => i >= 0 && i < options.length).map((i) => options[i])
RECURSIVE SelectedOptions(_, _)
SelectedOptions(pieces, options) ==
  IF Len(pieces) = 0 THEN <<>>
  ELSE Let([piece \in {Trim(Head(pieces))} |->
              IF ValidIndex(piece, Len(options)) THEN <<options[ParseInt(piece).n]>>
              ELSE <<>>])
       \o Let([rest \in {Tail(pieces)} |-> SelectedOptions(rest, options)])

\* multiSelect(question, options, defaults = [])
multiSelect(answer, options, defaultValue) ==
  LET defaults == IF defaultValue = Undefined THEN <<>> ELSE defaultValue.v
  IN Let([a \in {prompt(answer, Str(MultiSelectDefaultText(options, defaults)))} |->
       IF ~Truthy(a) THEN Arr(defaults)
       ELSE Let([selected \in {SelectedOptions(Split(a.v, ","), options)} |->
              IF Len(selected) > 0 THEN Arr(selected) ELSE Arr(defaults)])])

\* A question put to the line reader: which prompt, for which customization,
\* with which default shown.
Question(q, key, def) == [q |-> q, key |-> key, def |-> def]

PromptingTypes == {"select", "multiselect", "boolean"}

\* getCustomizations' loop from position idx while it does not prompt: a
\* customization of another type takes its default.
RECURSIVE SkipUnprompted(_, _, _)
SkipUnprompted(entries, cust, idx) ==
  IF idx > Len(entries) \/ entries[idx].type \in PromptingTypes
    THEN [cust |-> cust, idx |-> idx]
    ELSE SkipUnprompted(entries, Put(cust, entries[idx].key, entries[idx].default), idx + 1)

\* The default a customization prompt shows.
CustomizationDefaultText(entry) ==
  IF entry.type = "multiselect"
    THEN MultiSelectDefaultText(entry.options,
                                IF entry.default = Undefined THEN <<>> ELSE entry.default.v)
    ELSE <<>>

-----------------------------------------------------------------------------
(* Interactive mode: run() past parseArgs, one action per line read *)

\* Mutant of NoGeneration: the working directory is created while the run
\* waits or exits.
NoGeneration_CreatesCwd ==
  /\ writes' = Append(writes, [op |-> "mkdir", path |-> Cwd, content |-> Null, from |-> Null])
  /\ UNCHANGED <<fs, envContent, secrets>>

\* Nothing of the generation has happened: the run waits or has exited.
NoGeneration == UNCHANGED <<fs, writes, envContent, secrets>>

\* Mutant of GenerateInteractive: while the output directory exists the
\* overwrite confirmation is awaited again instead of generating.
GenerateInteractive_AskAgain(con, ps, cust, out) ==
  IF out \in DOMAIN fs
    THEN /\ prompts' = ps
         /\ customizations' = cust
         /\ outputDir' = out
         /\ pc' = "overwrite"
         /\ UNCHANGED <<console, exitCode, rl>>
         /\ NoGeneration
    ELSE /\ prompts' = ps
         /\ customizations' = cust
         /\ outputDir' = out
         /\ Generate(con \o <<"Generating">>, "closed")

\* Generation in interactive mode; the finally block closes the line reader.
GenerateInteractive(con, ps, cust, out) ==
  /\ prompts' = ps
  /\ customizations' = cust
  /\ outputDir' = out
  /\ Generate(con \o <<"Generating">>, "closed")

\* After the output directory is known: the overwrite check, then generation.
AfterOutputDirectory(con, ps, cust, out) ==
  IF out = <<>> \/ out \in DOMAIN fs
    THEN /\ prompts' = Append(ps, Question("overwrite", "", <<>>))
         /\ customizations' = cust
         /\ outputDir' = out
         /\ pc' = "overwrite"
         /\ console' = con
         /\ UNCHANGED <<exitCode, rl>>
         /\ NoGeneration
    ELSE GenerateInteractive(con, ps, cust, out)

\* Mutant of AfterCustomizations: the output directory is asked even when
\* --output was given.
AfterCustomizations_AlwaysAsk(con, ps, cust) ==
  /\ prompts' = Append(ps, Question("outputDirectory", "",
                                    DefaultOutput(projectDetails'.projectName)))
  /\ customizations' = cust
  /\ pc' = "outputDirectory"
  /\ console' = con \o <<"--- Output Location ---">>
  /\ UNCHANGED <<exitCode, rl, outputDir>>
  /\ NoGeneration

\* After getCustomizations: args.output, or the output directory prompt.
AfterCustomizations(con, ps, cust) ==
  IF Truthy(Get(args, s_output))
    THEN \E out \in {Resolve(Cwd, ToStr(Get(args, s_output)))} :
           AfterOutputDirectory(con, ps, cust, out)
    ELSE /\ prompts' = Append(ps, Question("outputDirectory", "",
                                           DefaultOutput(projectDetails'.projectName)))
         /\ customizations' = cust
         /\ pc' = "outputDirectory"
         /\ console' = con \o <<"--- Output Location ---">>
         /\ UNCHANGED <<exitCode, rl, outputDir>>
         /\ NoGeneration

\* getCustomizations(template) from position idx of its loop, holding cust.
CollectCustomizations(con, ps, cust, idx) ==
  \E entries \in {CustEntries(template)} :
  \E at \in {SkipUnprompted(entries, cust, idx)} :
     IF at.idx > Len(entries)
       THEN /\ custIdx' = at.idx
            /\ AfterCustomizations(con, ps, at.cust)
       ELSE /\ custIdx' = at.idx
            /\ customizations' = at.cust
            /\ prompts' = Append(ps, Question("customization", entries[at.idx].key,
                                              CustomizationDefaultText(entries[at.idx])))
            /\ pc' = "customization"
            /\ console' = con
            /\ UNCHANGED <<exitCode, rl, outputDir>>
            /\ NoGeneration

\* run() without --defaults, up to its first prompt.  A TypeError thrown
\* inside the try block (a catalog without templates) runs the finally block,
\* which closes the line reader, and reaches the top-level catch.
RunInteractive ==
  /\ pc = "start"
  /\ LET a == parseArgs(argv)
         t == Get(a, s_template)
         id == OrElse(ShortNameOf(t), t)
         tpl == TemplateOf(config, id)
     IN /\ ~Truthy(Get(a, s_defaults))
        /\ args' = a
        /\ IF ~HasTemplates(config)
             THEN /\ templateId' = IF Truthy(t) THEN id ELSE templateId
                  /\ console' = <<"banner", "Error:">>
                  /\ pc' = "exited"
                  /\ exitCode' = 1
                  /\ rl' = "closed"
                  /\ UNCHANGED <<template, prompts>>
           ELSE IF Truthy(t)
             THEN /\ templateId' = id
                  /\ template' = tpl
                  /\ IF tpl = Undefined
                       THEN /\ console' = <<"banner", "Template not found">>
                            /\ pc' = "exited"
                            /\ exitCode' = 1
                            /\ rl' = "open"
                            /\ UNCHANGED prompts
                       ELSE /\ console' = <<"banner", "Template:", "--- Project Details ---">>
                            /\ pc' = "projectName"
                            /\ rl' = "open"
                            /\ prompts' = <<Question("projectName", "", DefaultProjectName(id))>>
                            /\ UNCHANGED exitCode
             ELSE /\ console' = <<"banner", "Available Templates:">>
                  /\ pc' = "selectTemplate"
                  /\ rl' = "open"
                  /\ prompts' = <<Question("selectTemplate", "", <<>>)>>
                  /\ UNCHANGED <<templateId, template, exitCode>>
  /\ NoGeneration
  /\ UNCHANGED <<argv, catalogFile, config, tplDirs, now, fs0, lastAnswer, projectDetails,
                 customizations, custIdx, outputDir>>

TemplateAnswers ==
  { <<"1">>, <<" ", "2">>, <<"0">>, <<"9">>, <<"x">>, <<>>, <<"2", "x">>, <<"-", "1">> }

\* selectTemplate(): the line read, then printTemplateInfo and the first
\* prompt of getProjectDetails, or 'Invalid selection' and exit(1).
AnswerSelectTemplate ==
  /\ pc = "selectTemplate"
  /\ \E answer \in TemplateAnswers :
       LET a == prompt(answer, Undefined)
       IN /\ lastAnswer' = Str(answer)
          /\ IF ValidIndex(a.v, Len(config.templates))
               THEN /\ templateId' = Str(config.templates[ParseInt(a.v).n].id)
                    /\ template' = config.templates[ParseInt(a.v).n].def
                    /\ console' = console \o <<"Template:", "--- Project Details ---">>
                    /\ pc' = "projectName"
                    /\ prompts' = Append(prompts,
                         Question("projectName", "",
                                  DefaultProjectName(Str(config.templates[ParseInt(a.v).n].id))))
                    /\ UNCHANGED exitCode
               ELSE /\ console' = Append(console, "Invalid selection")
                    /\ pc' = "exited"
                    /\ exitCode' = 1
                    /\ UNCHANGED <<templateId, template, prompts>>
  /\ NoGeneration
  /\ UNCHANGED <<argv, catalogFile, config, tplDirs, now, fs0, rl, args, projectDetails, customizations,
                 custIdx, outputDir>>

NameAnswers == { <<>>, <<" ", "a", "p", "p", " ">> }
DescriptionAnswers == { <<>>, <<"d">> }
AuthorAnswers == { <<>>, <<"m", "e">> }

\* getProjectDetails: the project name is read, the description is asked.
AnswerProjectName ==
  /\ pc = "projectName"
  /\ \E answer \in NameAnswers :
       /\ lastAnswer' = Str(answer)
       /\ projectDetails' =
            ProjectDetails(prompt(answer, Str(DefaultProjectName(templateId))),
                           Undefined, Undefined)
  /\ prompts' = Append(prompts, Question("description", "", DefaultDescription(templateId)))
  /\ pc' = "description"
  /\ NoGeneration
  /\ UNCHANGED <<argv, catalogFile, config, tplDirs, now, fs0, exitCode, rl, console, args, templateId,
                 template, customizations, custIdx, outputDir>>

\* getProjectDetails: the description is read, the author is asked.
AnswerDescription ==
  /\ pc = "description"
  /\ \E answer \in DescriptionAnswers :
       /\ lastAnswer' = Str(answer)
       /\ projectDetails' =
            [projectDetails EXCEPT
               !.projectDescription = prompt(answer, Str(DefaultDescription(templateId)))]
  /\ prompts' = Append(prompts, Question("author", "", DefaultText(config.defaults.author)))
  /\ pc' = "author"
  /\ NoGeneration
  /\ UNCHANGED <<argv, catalogFile, config, tplDirs, now, fs0, exitCode, rl, console, args, templateId,
                 template, customizations, custIdx, outputDir>>

\* getProjectDetails: the author is read; getCustomizations begins.
AnswerAuthor ==
  /\ pc = "author"
  /\ UNCHANGED <<argv, catalogFile, config, tplDirs, now, fs0, args, templateId, template>>
  /\ \E answer \in AuthorAnswers :
       /\ lastAnswer' = Str(answer)
       /\ projectDetails' =
            [projectDetails EXCEPT !.author = prompt(answer, config.defaults.author)]
       /\ CollectCustomizations(
            IF Len(CustEntries(template)) = 0 THEN console
            ELSE Append(console, "--- Customization Options ---"),
            prompts, EmptyObj, 1)

SelectAnswers == { <<>>, <<"2">>, <<"0">>, <<"2", "x">> }
MultiSelectAnswers == { <<>>, <<"2", ",", " ", "3">>, <<"2", ",", "2">>, <<"0", ",", "x">> }
BooleanAnswers == { <<>>, <<"Y">>, <<"n">> }

AnswersFor(type) ==
  CASE type = "select" -> SelectAnswers
    [] type = "multiselect" -> MultiSelectAnswers
    [] OTHER -> BooleanAnswers

\* What the prompt of one customization resolves to.
CustomizationValue(entry, answer) ==
  CASE entry.type = "select" -> select(answer, entry.options, entry.default)
    [] entry.type = "multiselect" -> multiSelect(answer, entry.options, entry.default)
    [] OTHER -> confirm(answer, entry.default)

\* getCustomizations: the line of one customization is read; the loop goes on.
AnswerCustomization ==
  /\ pc = "customization"
  /\ UNCHANGED <<argv, catalogFile, config, tplDirs, now, fs0, args, templateId, template,
                 projectDetails>>
  /\ \E entry \in {CustEntries(template)[custIdx]} :
     \E answer \in AnswersFor(entry.type) :
     \E value \in {CustomizationValue(entry, answer)} :
        /\ lastAnswer' = Str(answer)
        /\ CollectCustomizations(console, prompts, Put(customizations, entry.key, value),
                                 custIdx + 1)

OutputAnswers == { <<>>, s_out }

\* getOutputDirectory: the line is read and resolved.
AnswerOutputDirectory ==
  /\ pc = "outputDirectory"
  /\ UNCHANGED <<argv, catalogFile, config, tplDirs, now, fs0, args, templateId, template,
                 projectDetails, custIdx>>
  /\ \E answer \in OutputAnswers :
       /\ lastAnswer' = Str(answer)
       /\ \E line \in {prompt(answer, Str(DefaultOutput(projectDetails.projectName)))} :
          \E out \in {Resolve(Cwd, ToStr(line))} :
             AfterOutputDirectory(console, prompts, customizations, out)

OverwriteAnswers == { <<>>, <<"y">>, <<"n">>, <<" ", "Y", "e", "s">> }

\* The overwrite confirmation is read: 'Aborted.' and exit(0), or generation.
AnswerOverwrite ==
  /\ pc = "overwrite"
  /\ UNCHANGED <<argv, catalogFile, config, tplDirs, now, fs0, args, templateId, template,
                 projectDetails, custIdx>>
  /\ \E answer \in OverwriteAnswers :
       /\ lastAnswer' = Str(answer)
       /\ IF confirm(answer, Bool(FALSE)) = Bool(TRUE)
            THEN GenerateInteractive(console, prompts, customizations, outputDir)
            ELSE /\ console' = Append(console, "Aborted.")
                 /\ pc' = "exited"
                 /\ exitCode' = 0
                 /\ UNCHANGED <<rl, prompts, customizations, outputDir>>
                 /\ NoGeneration

Next ==
  \/ Construct
  \/ RunNonInteractive
  \/ RunInteractive
  \/ AnswerSelectTemplate
  \/ AnswerProjectName
  \/ AnswerDescription
  \/ AnswerAuthor
  \/ AnswerCustomization
  \/ AnswerOutputDirectory
  \/ AnswerOverwrite

Spec == Init /\ [][Next]_vars

\* The run under the scheduling the code has: a step that can be taken is
\* taken (the constructor and run() are plain calls), and every question put
\* to the line reader eventually gets its input line, whose callback Node's
\* event loop then runs.
SpecLive == Spec /\ WF_vars(Next)

-----------------------------------------------------------------------------
(* Claims about the run *)

\* The command line holds the argument a.
ArgGiven(a) == \E i \in 1..Len(argv) : argv[i] = a

StatedNonInteractive == ArgGiven(Flag(s_defaults))

\* The aliases as the specification lists them.
StatedAliases ==
  (s_api :> s_api_service) @@ (s_saas :> s_saas_level_1)
    @@ (s_mobile :> s_mobile_app) @@ (s_about :> s_about_me_page)

StatedFullId(x) == IF x \in DOMAIN StatedAliases THEN StatedAliases[x] ELSE x

InCatalog(id) == "templates" \in DOMAIN config /\ \E i \in 1..Len(config.templates) : config.templates[i].id = id

CatalogDef(id) ==
  config.templates[CHOOSE i \in 1..Len(config.templates) : config.templates[i].id = id].def

DeclaresEnvVars(def) == def.envVars.t = "arr" /\ Len(def.envVars.v) > 0

RunEnded == pc \in {"done", "exited"}

\* The top-level handler caught a throw of the generation.
GenerationThrew == pc = "exited" /\ Len(console) > 0 /\ console[Len(console)] = "Error:"

HasManifest(tree) == \E i \in 1..Len(tree) : tree[i].name = s_package_json /\ ~tree[i].dir

OutputManifest == fs[Append(outputDir, s_package_json)].content.v

s_0_1_0 == <<"0", ".", "1", ".", "0">>

\* C1: a run with --defaults and --template=x, x an id or alias of a catalog
\* entry, whose generation throws nothing, ends with exit status 0 having
\* created the output directory; the manifest materialized there has the
\* --name value as name, or 'my-<full id>' when no --name is given, and version
\* '0.1.0'; .env.example exists there when the entry declares a variable.
C1_NonInteractiveSuccess ==
  \A x \in TemplateIdsAndAliases :
    LET full == StatedFullId(x)
    IN /\ RunEnded
       /\ StatedNonInteractive
       /\ ArgGiven(FlagValue(s_template, x))
       /\ InCatalog(full)
       /\ ~GenerationThrew
       => /\ pc = "done"
          /\ exitCode = 0
          /\ IsDirAt(fs, outputDir)
          /\ \E i \in 1..Len(writes) : writes[i].path = outputDir /\ writes[i].op = "mkdir"
          /\ HasManifest(tplDirs[full]) =>
               /\ IsFileAt(fs, Append(outputDir, s_package_json))
               /\ ArgGiven(FlagValue(s_name, s_cool)) => Get(OutputManifest, "name") = Str(s_cool)
               /\ (\A i \in 1..Len(argv) : ~StartsWith(argv[i], Flag(s_name))) =>
                    Get(OutputManifest, "name") = Str(<<"m", "y", "-">> \o full)
               /\ Get(OutputManifest, "version") = Str(s_0_1_0)
          /\ DeclaresEnvVars(CatalogDef(full)) =>
               IsFileAt(fs, Append(outputDir, s_env_example))

\* C1 witness: --defaults --template=api without --name has ended with status
\* 0, a manifest named 'my-api-service' and a .env.example in ./my-api-service.
C1_Witness ==
  /\ pc = "done"
  /\ exitCode = 0
  /\ argv = <<FlagValue(s_template, s_api), Flag(s_defaults)>>
  /\ outputDir = <<s_w, <<"m", "y", "-">> \o s_api_service>>
  /\ Get(OutputManifest, "name") = Str(<<"m", "y", "-">> \o s_api_service)
  /\ Get(OutputManifest, "version") = Str(s_0_1_0)
  /\ IsFileAt(fs, Append(outputDir, s_env_example))

\* C2: when the --template value, after alias mapping, names no catalog entry,
\* the run ends with a non-zero exit status, having changed nothing in the
\* file system and made no file-system call, in both modes; in interactive
\* mode it has asked nothing.
C2_UnknownTemplate ==
  \A x \in TemplateIdsAndAliases \cup {s_nope} :
    ArgGiven(FlagValue(s_template, x)) /\ ~InCatalog(StatedFullId(x)) =>
      /\ pc \in {"construct", "start", "exited"}
      /\ pc = "exited" => exitCode # 0 /\ exitCode # -1
      /\ fs = fs0
      /\ writes = <<>>
      /\ envContent = Undefined
      /\ ~StatedNonInteractive => prompts = <<>>

\* C2 witness: an interactive run given an alias whose template the catalog
\* lacks has exited with status 1.
C2_Witness ==
  /\ pc = "exited"
  /\ exitCode = 1
  /\ ~StatedNonInteractive
  /\ ArgGiven(FlagValue(s_template, s_mobile))
  /\ ~InCatalog(s_mobile_app)
  /\ prompts = <<>>

\* The contents of the files of a template tree.
RECURSIVE TreeContents(_)
TreeContents(entries) ==
  IF Len(entries) = 0 THEN {}
  ELSE (IF Head(entries).dir THEN TreeContents(Head(entries).children)
        ELSE {Head(entries).content})
       \cup TreeContents(Tail(entries))

\* `A <id> project`, as the specification words the default description.
StatedDescription(id) == <<"A", " ">> \o id \o <<" ", "p", "r", "o", "j", "e", "c", "t">>

\* C3: a run given --template=<alias> and a run given --template=<full id>
\* both resolve to the full id and to the catalog's definition under it, in
\* both modes; the default project name and description (taken in
\* non-interactive mode, offered by the prompts in interactive mode) and the
\* directory the files are copied from are those of the full id.
C3_AliasResolution ==
  \A alias \in DOMAIN StatedAliases :
    \A x \in {alias, StatedAliases[alias]} :
      LET full == StatedAliases[alias]
      IN ArgGiven(FlagValue(s_template, x)) /\ config # Null /\ pc # "start" =>
           /\ templateId = Str(full)
           /\ template = IF InCatalog(full) THEN CatalogDef(full) ELSE Undefined
           /\ InCatalog(full) /\ StatedNonInteractive =>
                /\ projectDetails.projectDescription = Str(StatedDescription(full))
                /\ (\A i \in 1..Len(argv) : ~StartsWith(argv[i], Flag(s_name))) =>
                     projectDetails.projectName = Str(<<"m", "y", "-">> \o full)
           /\ InCatalog(full) /\ ~StatedNonInteractive =>
                /\ prompts[1] = Question("projectName", "", <<"m", "y", "-">> \o full)
                /\ Len(prompts) >= 2 =>
                     prompts[2] = Question("description", "", StatedDescription(full))
           /\ \A i \in 1..Len(writes) :
                writes[i].from # Null => writes[i].from \in TreeContents(tplDirs[full])

\* C3 witness: an interactive run given --template=saas has generated the
\* project from the saas-level-1 directory.
C3_Witness ==
  /\ pc = "done"
  /\ ~StatedNonInteractive
  /\ ArgGiven(FlagValue(s_template, s_saas))
  /\ templateId = Str(s_saas_level_1)
  /\ \E i \in 1..Len(writes) :
       /\ writes[i].from # Null
       /\ writes[i].from \in TreeContents(tplDirs[s_saas_level_1])
       /\ writes[i].from \notin TreeContents(tplDirs[s_api_service])

\* The writes of the run to a file named .env.example.
EnvExampleWrites ==
  {i \in 1..Len(writes) : writes[i].op = "write" /\ BaseName(writes[i].path) = s_env_example}

\* The synthesized content is the header block followed by one line per
\* declared variable in the declared order, the i-th naming the i-th key.
HeaderThenOneLinePerVar ==
  /\ envContent.t = "str"
  /\ Len(EnvOutLines) = HeaderLen + Len(DeclaredVars)
  /\ SubSeq(EnvOutLines, 1, HeaderLen) = EnvHeader
  /\ \A i \in 1..Len(DeclaredVars) :
       \/ IsPlainFor(VarLine(i), DeclaredVars[i].key)
       \/ IsCommentedFor(VarLine(i), DeclaredVars[i].key)

\* C9 (as stated): after a generation, when the template declares no envVars
\* the synthesizer returned null and the run wrote no .env.example file;
\* otherwise the content is the header and one line per variable.
C9_EnvShape ==
  pc = "done" =>
    IF Len(DeclaredVars) = 0
      THEN envContent = Null /\ EnvExampleWrites = {}
      ELSE HeaderThenOneLinePerVar

\* C9 (amended): after a generation, when the template declares no envVars
\* the synthesizer returned null and the run wrote no synthesized content: a
\* .env.example it wrote is the copy of a .env.example of the template
\* directory; otherwise the content is the header and one line per variable in
\* declared order, and it is what the output directory's .env.example holds.
C9_EnvShapeSynthesized ==
  pc = "done" =>
    IF Len(DeclaredVars) = 0
      THEN /\ envContent = Null
           /\ \A i \in EnvExampleWrites :
                writes[i].from # Null /\ writes[i].content = writes[i].from
      ELSE /\ HeaderThenOneLinePerVar
           /\ fs[Append(outputDir, s_env_example)] = FileNode(Text(envContent.v))
           /\ writes[Len(writes)].path = Append(outputDir, s_env_example)
           /\ writes[Len(writes)].from = Null

\* C9 witness: both cases, in one catalog: a generation for a template whose
\* envVars is an empty list wrote the template's own .env.example.
C9_Witness ==
  /\ pc = "done"
  /\ template.envVars = Arr(<<>>)
  /\ envContent = Null
  /\ EnvExampleWrites # {}

\* The catalog was loaded and the run is interactive.
InteractiveRun == ~StatedNonInteractive /\ config # Null

\* C15 (as stated): in an interactive run that has ended after the line
\* reader was created, the line reader has been closed, on every path.
C15_ReaderClosedAtExit ==
  InteractiveRun /\ RunEnded /\ rl # "null" => rl = "closed"

\* A question of the given kind has been asked.
Asked(kind) == \E i \in 1..Len(prompts) : prompts[i].q = kind

\* The overwrite confirmation was asked and answered: the run has ended since.
OverwriteAnswered == Asked("overwrite") /\ RunEnded

\* An answer that begins with 'y' or 'Y' once trimmed.
StatedYes(answer) == Len(Trim(answer)) > 0 /\ Trim(answer)[1] \in {"y", "Y"}

\* C16: in interactive mode, when the resolved output directory exists the
\* confirmation is asked while nothing has been written; an answer that does
\* not begin with 'y' or 'Y' after trimming, the empty one included, ends the
\* run with status 0 and the file system as it was; nothing is written into
\* an existing directory but after an answer that begins with 'y' or 'Y',
\* and such an answer starts the generation.
C16_OverwriteCheck ==
  InteractiveRun =>
    /\ pc = "overwrite" =>
         /\ prompts[Len(prompts)].q = "overwrite"
         /\ outputDir \in DOMAIN fs0
         /\ fs = fs0 /\ writes = <<>>
    /\ OverwriteAnswered /\ ~StatedYes(lastAnswer.v) =>
         /\ pc = "exited" /\ exitCode = 0
         /\ fs = fs0 /\ writes = <<>>
    /\ OverwriteAnswered /\ StatedYes(lastAnswer.v) =>
         /\ writes # <<>>
         /\ writes[1] = [op |-> "mkdir", path |-> outputDir, content |-> Null, from |-> Null]
    /\ writes # <<>> /\ outputDir \in DOMAIN fs0 =>
         Asked("overwrite") /\ StatedYes(lastAnswer.v)

\* C16 witness: the confirmation for an existing ./out that holds files was
\* answered with an empty line, and the run ended with status 0.
C16_Witness ==
  /\ InteractiveRun
  /\ OverwriteAnswered
  /\ lastAnswer = Str(<<>>)
  /\ fs0 = FsUsed
  /\ outputDir = OutPath
  /\ exitCode = 0
  /\ fs = fs0

\* The integer a trimmed answer denotes when it is a decimal numeral, else 0.
StatedIndex(answer) ==
  LET a == Trim(answer)
  IN IF Len(a) > 0 /\ \A i \in 1..Len(a) : a[i] \in DOMAIN DigitOf THEN DigitsValue(a) ELSE 0

\* The template selection has just been answered: lastAnswer is its answer.
SelectionAnswered ==
  /\ InteractiveRun
  /\ Len(prompts) >= 1 /\ prompts[1].q = "selectTemplate"
  /\ \/ pc = "exited" /\ Len(prompts) = 1
     \/ pc = "projectName" /\ Len(prompts) = 2

\* C17 (as stated): an answer that denotes an integer k, 1 <= k <= number of
\* templates, selects the k-th template of the catalog; any other answer ends
\* the run with an error message and a non-zero status, with no further
\* prompt and nothing written.
C17_TemplateSelection ==
  SelectionAnswered =>
    LET k == StatedIndex(lastAnswer.v)
    IN IF k \in 1..Len(config.templates)
         THEN /\ pc = "projectName"
              /\ templateId = Str(config.templates[k].id)
              /\ template = config.templates[k].def
         ELSE /\ pc = "exited"
              /\ exitCode \notin {0, -1}
              /\ console[Len(console)] = "Invalid selection"
              /\ Len(prompts) = 1
              /\ writes = <<>> /\ fs = fs0

CatalogUnusable ==
  catalogFile.t # "json" \/ "templates" \notin DOMAIN catalogFile.v

\* C18: when the catalog file is missing, is not JSON, or has no templates
\* collection, the run never asks anything and never writes anything, in
\* either mode, and when it ends it ends with a non-zero status.
C18_CatalogLoadFailure ==
  CatalogUnusable =>
    /\ pc \in {"construct", "start", "exited"}
    /\ pc = "exited" => exitCode \notin {0, -1}
    /\ prompts = <<>>
    /\ writes = <<>> /\ fs = fs0
    /\ catalogFile.t # "json" => pc # "start"

\* C18 witness: an interactive run whose catalog file has no templates
\* collection has exited with status 1.
C18_Witness ==
  /\ catalogFile = Json(CatalogNoTemplates)
  /\ ~StatedNonInteractive
  /\ pc = "exited"
  /\ exitCode = 1
  /\ prompts = <<>>

\* A generation was started: the output directory was resolved and the copy
\* called, which begins by creating the output directory.
GenerationStarted == config # Null /\ template # Undefined /\ outputDir # <<>>

\* C19: when a file-system call of the copy throws, in either mode, the run
\* ends with a non-zero status; what was written before the failure is still
\* there, no .env.example content was synthesized or written, no success
\* message was printed and no call was made twice.
C19_MaterializationFailure ==
  GenerationStarted /\ GenerationThrew =>
    /\ pc = "exited" /\ exitCode \notin {0, -1}
    /\ \A i \in 1..Len(writes) :
         /\ writes[i].path \in DOMAIN fs
         /\ IF writes[i].op = "mkdir" THEN fs[writes[i].path].dir
            ELSE fs[writes[i].path] = FileNode(writes[i].content)
         /\ writes[i].from = Null => writes[i].op = "mkdir"
         /\ \A j \in 1..Len(writes) : writes[j] = writes[i] => j = i
    /\ \A q \in DOMAIN fs :
         q \in DOMAIN fs0 \/ (\E k \in 1..Len(writes) : writes[k].path = q)
    /\ envContent = Undefined
    /\ \A i \in 1..Len(console) : console[i] # "Done"

\* C19 witness: an interactive generation into ./out, where src is a file,
\* failed after the readme and the manifest were written; they are there, the
\* entries after src are not.
C19_Witness ==
  /\ InteractiveRun
  /\ GenerationThrew
  /\ fs0 = FsClash
  /\ IsFileAt(fs, Append(outputDir, s_README_md))
  /\ IsFileAt(fs, Append(outputDir, s_package_json))
  /\ Append(outputDir, s_tests) \notin DOMAIN fs
  /\ Append(outputDir, s_logo) \notin DOMAIN fs
  /\ exitCode = 1

PromptPending ==
  pc \in {"selectTemplate", "projectName", "description", "author", "customization",
          "outputDirectory", "overwrite"}

\* C20: in every step of a run, no directory is created and no file written
\* while a prompt is still to be asked or answered; the step that writes asks
\* nothing, and no prompt follows a write; a run with --defaults never opens
\* the line reader, asks nothing and reads nothing.
C20_CollectorWritesNothing ==
  [][ /\ writes' # writes => prompts' = prompts /\ ~PromptPending'
      /\ writes # <<>> => prompts' = prompts
      /\ PromptPending' => writes' = <<>> /\ fs' = fs0
      /\ StatedNonInteractive => rl' = "null" /\ prompts' = <<>> /\ lastAnswer' = Undefined
    ]_vars

\* C20 witness: an interactive run that asked for the template, the project
\* details, a customization, the output directory and the overwrite
\* confirmation has written the project.
C20_Witness ==
  /\ pc = "done"
  /\ writes # <<>>
  /\ \A kind \in {"selectTemplate", "projectName", "description", "author", "customization",
                  "outputDirectory", "overwrite"} : Asked(kind)

\* No argument of the command line names the flag, with or without a value.
FlagMissing(key) == \A i \in 1..Len(argv) : ~StartsWith(argv[i], Flag(key))

\* The customization schema of the plan's template as the catalog declares it.
StatedSchema ==
  IF template.customizations.t = "obj" THEN template.customizations.v ELSE <<>>

\* A --defaults run has resolved its generation plan.
DefaultsPlanResolved == StatedNonInteractive /\ RunEnded /\ template # Undefined

\* C23: in a --defaults run the plan's customizations have exactly the keys
\* of the template's schema (none without a schema), each bound to its catalog
\* default; without --template the template is api-service; without --name,
\* or with an empty one, the project name is 'my-<template id>'; without
\* --output the output directory is <cwd>/<project name>; the author is the
\* catalog's defaults.author.
C23_NonInteractiveDefaults ==
  /\ StatedNonInteractive /\ RunEnded /\ HasTemplates(config) /\ FlagMissing(s_template) =>
       templateId = Str(s_api_service)
  /\ DefaultsPlanResolved =>
       /\ DOMAIN customizations = {StatedSchema[i].key : i \in 1..Len(StatedSchema)}
       /\ \A i \in 1..Len(StatedSchema) :
            customizations[StatedSchema[i].key] = StatedSchema[i].default
       /\ FlagMissing(s_name) \/ ArgGiven(FlagValue(s_name, <<>>)) =>
            projectDetails.projectName = Str(<<"m", "y", "-">> \o templateId.v)
       /\ FlagMissing(s_output) /\ projectDetails.projectName.t = "str" =>
            outputDir = Append(Cwd, projectDetails.projectName.v)
       /\ projectDetails.author = config.defaults.author

\* C23 witness: --defaults alone has generated api-service with both of its
\* customizations at their defaults, as 'my-api-service' in <cwd>/my-api-service.
C23_Witness ==
  /\ argv = <<Flag(s_defaults)>>
  /\ pc = "done"
  /\ templateId = Str(s_api_service)
  /\ Len(StatedSchema) = 2
  /\ customizations["database"] = Str(s_pg)
  /\ customizations["includeAuth"] = Bool(TRUE)
  /\ outputDir = Append(Cwd, <<"m", "y", "-">> \o s_api_service)
  /\ projectDetails.author = Str(<<"Y", "o", "u">>)

\* The flag is given with a non-empty value.
FlagWithValue(key) ==
  \E i \in 1..Len(argv) :
    StartsWith(argv[i], Flag(key) \o <<"=">>) /\ Len(argv[i]) > Len(key) + 3

\* The kind of each prompt issued so far, with the customization it is for.
IssuedKinds == [i \in 1..Len(prompts) |-> <<prompts[i].q, prompts[i].key>>]

\* The schema entries the collector prompts for: select, multiselect, boolean.
PromptedSchema ==
  SelectSeq(StatedSchema, LAMBDA e : e.type \in {"select", "multiselect", "boolean"})

\* The prompts of the run in the stated order, as far as the state decides
\* them: the customizations once the template is known, the overwrite
\* confirmation once the output directory is resolved.
StatedPromptOrder ==
  (IF FlagWithValue(s_template) THEN <<>> ELSE << <<"selectTemplate", "">> >>)
  \o (IF template = Undefined THEN <<>>
      ELSE << <<"projectName", "">>, <<"description", "">>, <<"author", "">> >>
           \o [i \in 1..Len(PromptedSchema) |-> <<"customization", PromptedSchema[i].key>>]
           \o (IF FlagWithValue(s_output) THEN <<>> ELSE << <<"outputDirectory", "">> >>)
           \o (IF outputDir # <<>> /\ outputDir \in DOMAIN fs0
                 THEN << <<"overwrite", "">> >> ELSE <<>>))

IsPrefix(a, b) == Len(a) <= Len(b) /\ SubSeq(b, 1, Len(a)) = a

\* C27: in an interactive run the prompts issued so far are always a prefix
\* of: template selection (not with --template), project name, description,
\* author, one prompt per select / multiselect / boolean customization in
\* catalog order, output directory (not with --output), overwrite
\* confirmation (only when the resolved output directory exists); a pending
\* prompt is the last one issued; once something is written all of them were
\* issued, and a customization of another type holds its default.
C27_PromptOrder ==
  InteractiveRun /\ HasTemplates(config) =>
    /\ IsPrefix(IssuedKinds, StatedPromptOrder)
    /\ PromptPending => Len(prompts) > 0 /\ prompts[Len(prompts)].q = pc
    /\ writes # <<>> =>
         /\ IssuedKinds = StatedPromptOrder
         /\ \A i \in 1..Len(StatedSchema) :
              StatedSchema[i].type \notin {"select", "multiselect", "boolean"} =>
                customizations[StatedSchema[i].key] = StatedSchema[i].default

\* C27 witness: with --output and --template the run asked project name,
\* description, author, the two customizations of the template and the
\* overwrite confirmation, in this order, and generated.
C27_Witness ==
  /\ InteractiveRun
  /\ pc = "done"
  /\ FlagWithValue(s_template) /\ FlagWithValue(s_output)
  /\ Len(PromptedSchema) = 2
  /\ Len(prompts) = 6
  /\ prompts[1].q = "projectName" /\ prompts[3].q = "author"
  /\ prompts[4].q = "customization" /\ prompts[5].q = "customization"
  /\ prompts[6].q = "overwrite"

\* The template directory of the plan holds a file .env.example at its top.
TemplateShipsEnvExample ==
  \E i \in 1..Len(tplDirs[templateId.v]) :
    tplDirs[templateId.v][i].name = s_env_example /\ ~tplDirs[templateId.v][i].dir

\* C28: after a successful run for a template with a declared variable, the
\* last write is the synthesized content to <outputDir>/.env.example, every
\* earlier write is a directory creation or the copy of a template file, the
\* copy of a .env.example of the template comes before it, and the file holds
\* the synthesized content.
C28_EnvWrittenLast ==
  pc = "done" /\ Len(DeclaredVars) > 0 =>
    /\ writes # <<>>
    /\ writes[Len(writes)] =
         [op |-> "write", path |-> Append(outputDir, s_env_example),
          content |-> Text(envContent.v), from |-> Null]
    /\ \A i \in 1..(Len(writes) - 1) : writes[i].op = "mkdir" \/ writes[i].from # Null
    /\ TemplateShipsEnvExample =>
         \E i \in 1..(Len(writes) - 1) :
           writes[i].path = Append(outputDir, s_env_example) /\ writes[i].from # Null
    /\ fs[Append(outputDir, s_env_example)] = FileNode(Text(envContent.v))

\* C28 witness: the template's own .env.example was copied into the output
\* directory and then replaced by a different, synthesized content.
C28_Witness ==
  /\ pc = "done"
  /\ Len(DeclaredVars) > 0
  /\ TemplateShipsEnvExample
  /\ \E i \in 1..Len(writes) :
       /\ writes[i].path = Append(outputDir, s_env_example)
       /\ writes[i].from # Null
       /\ writes[i].content # Text(envContent.v)
  /\ fs[Append(outputDir, s_env_example)] = FileNode(Text(envContent.v))

\* The largest number of prompts the specification allows the run: template,
\* three project details, one per customization, output directory, overwrite.
StatedPromptBound ==
  1 + 3 + (IF template = Undefined THEN 0 ELSE Len(StatedSchema)) + 1 + 1

NoPromptRepeated ==
  \A i, j \in 1..Len(prompts) :
    prompts[i].q = prompts[j].q /\ prompts[i].key = prompts[j].key => i = j

\* C30: no prompt is issued twice and the number of prompts never exceeds
\* 1 + 3 + (customizations of the template) + 1 + 1; when every issued prompt
\* gets its input line the run eventually ends, by an exit or by a generation
\* whose last message is the summary; a run with --defaults never waits for
\* input.
C30_Termination ==
  /\ [](NoPromptRepeated /\ Len(prompts) <= StatedPromptBound)
  /\ [](pc = "done" => exitCode = 0 /\ console[Len(console)] = "Done")
  /\ [](StatedNonInteractive => ~PromptPending /\ prompts = <<>>)
  /\ <>RunEnded

\* C30 witness: an interactive run has ended after the largest number of
\* prompts its template allows, two of them for customizations.
C30_Witness ==
  /\ InteractiveRun
  /\ pc = "done"
  /\ Len(StatedSchema) = 2
  /\ Len(prompts) = StatedPromptBound

-----------------------------------------------------------------------------
(* parseArgs on its own: SpecArgs draws a command line and parses it once.  *)

s_verbose == <<"v", "e", "r", "b", "o", "s", "e">>

\* Arguments: flags with and without a value, a value holding '=', an empty
\* value, unrecognized flags, and arguments that do not start with '--'.
ParseArgPool ==
  { FlagValue(s_name, s_cool), FlagValue(s_name, <<"a", "=", "b">>), FlagValue(s_name, <<>>),
    Flag(s_name), FlagValue(s_template, s_api), Flag(s_defaults),
    FlagValue(s_output, <<"o", "=">>), Flag(s_verbose), FlagValue(s_verbose, <<"1">>),
    <<"x">>, <<"-", "n">>, <<"n", "a", "m", "e", "=", "z">> }

InitArgs ==
  /\ argv \in SeqsUpTo(ParseArgPool, MaxArgs)
  /\ catalogFile = Null
  /\ config = Null
  /\ tplDirs = <<>>
  /\ now = <<>>
  /\ fs0 = <<>>
  /\ fs = <<>>
  /\ writes = <<>>
  /\ pc = "parse"
  /\ exitCode = -1
  /\ rl = "null"
  /\ prompts = <<>>
  /\ console = <<>>
  /\ lastAnswer = Undefined
  /\ args = EmptyObj
  /\ templateId = Undefined
  /\ template = Undefined
  /\ projectDetails = Undefined
  /\ customizations = EmptyObj
  /\ custIdx = 0
  /\ outputDir = <<>>
  /\ envContent = Undefined
  /\ secrets = <<>>

\* const args = this.parseArgs()
ParseCommandLine ==
  /\ pc = "parse"
  /\ args' = parseArgs(argv)
  /\ pc' = "parsed"
  /\ UNCHANGED <<argv, catalogFile, config, tplDirs, now, fs0, fs, writes, exitCode, rl, prompts,
                 console, lastAnswer, templateId, template, projectDetails, customizations,
                 custIdx, outputDir, envContent, secrets>>

NextArgs == ParseCommandLine

SpecArgs == InitArgs /\ [][NextArgs]_vars

\* The flag grammar as the specification words it.
IsFlagArg(arg) == StartsWith(arg, <<"-", "-">>)

\* Position of the first '=' in s, 0 when there is none.
FirstEquals(s) ==
  IF \E i \in 1..Len(s) : s[i] = "=" THEN CHOOSE i \in 1..Len(s) : s[i] = "=" /\ \A j \in 1..(i - 1) : s[j] # "="
  ELSE 0

StatedKey(arg) ==
  LET rest == SubSeq(arg, 3, Len(arg))
  IN IF FirstEquals(rest) = 0 THEN rest ELSE SubSeq(rest, 1, FirstEquals(rest) - 1)

StatedValue(arg) ==
  LET rest == SubSeq(arg, 3, Len(arg))
  IN IF FirstEquals(rest) = 0 THEN Bool(TRUE)
     ELSE Str(SubSeq(rest, FirstEquals(rest) + 1, Len(rest)))

RecognizedKeys == {s_template, s_name, s_output, s_defaults}

IsRecognizedArg(arg) == IsFlagArg(arg) /\ StatedKey(arg) \in RecognizedKeys

\* C24 (as stated): the parsed flags have one key per flag argument; --key=value
\* binds key to the whole text after the first '=', --key binds key to true,
\* the last argument of a key deciding; and the bindings of template, name,
\* output and defaults are those of the command line without its other
\* arguments.
C24_FlagGrammar ==
  pc = "parsed" =>
    /\ DOMAIN args = {StatedKey(argv[i]) : i \in {j \in 1..Len(argv) : IsFlagArg(argv[j])}}
    /\ \A i \in 1..Len(argv) :
         /\ IsFlagArg(argv[i])
         /\ \A j \in (i + 1)..Len(argv) :
              ~(IsFlagArg(argv[j]) /\ StatedKey(argv[j]) = StatedKey(argv[i]))
         => args[StatedKey(argv[i])] = StatedValue(argv[i])
    /\ \A k \in RecognizedKeys :
         Get(args, k) = Get(parseArgs(SelectSeq(argv, IsRecognizedArg)), k)

-----------------------------------------------------------------------------
(* The customization prompts on their own: SpecPrompt draws one schema      *)
(* entry and one input line, and resolves the prompt once.                  *)

s_zz == <<"z", "z">>

\* Schema entries: select and multiselect with a default among the options,
\* without a default, and with a default outside the options; boolean.
PromptEntryPool ==
  { CustSpec("database", "select", <<s_pg, s_lite>>, Str(s_pg)),
    CustSpec("database", "select", <<s_pg, s_lite, s_email>>, Str(s_lite)),
    CustSpec("database", "select", <<s_pg, s_lite>>, Undefined),
    CustSpec("database", "select", <<s_pg, s_lite>>, Str(s_zz)),
    CustSpec("authProviders", "multiselect", <<s_github, s_google, s_email>>, Arr(<<s_github>>)),
    CustSpec("authProviders", "multiselect", <<s_github, s_google, s_email>>,
             Arr(<<s_email, s_github>>)),
    CustSpec("authProviders", "multiselect", <<s_github, s_google>>, Undefined),
    CustSpec("authProviders", "multiselect", <<s_github, s_google>>, Arr(<<>>)),
    CustSpec("includeAuth", "boolean", <<>>, Bool(TRUE)),
    CustSpec("includeAuth", "boolean", <<>>, Bool(FALSE)) }

SelectLinePool ==
  { <<>>, <<" ">>, <<"1">>, <<"2">>, <<" ", "2", " ">>, <<"3">>, <<"0">>, <<"-", "1">>,
    <<"x">>, <<"2", "x">>, <<"9">>, <<"1", "2">> }

MultiSelectLinePool ==
  { <<>>, <<"1">>, <<"2", ",", " ", "3">>, <<"2", ",", "2">>, <<"0", ",", "x">>,
    <<"3", ",", "1">>, <<",">>, <<"1", ",", ",", "2">>, <<"9">>, <<"2", "x">>,
    <<"1", ",", "9">>, <<" ", "2", " ">> }

LinesFor(type) ==
  CASE type = "select" -> SelectLinePool
    [] type = "multiselect" -> MultiSelectLinePool
    [] OTHER -> BooleanAnswers \cup OverwriteAnswers

InitPrompt ==
  /\ argv = <<>>
  /\ catalogFile = Null
  /\ config = Null
  /\ tplDirs = <<>>
  /\ now = <<>>
  /\ fs0 = <<>>
  /\ fs = <<>>
  /\ writes = <<>>
  /\ pc = "customization"
  /\ exitCode = -1
  /\ rl = "open"
  /\ \E entry \in PromptEntryPool :
       /\ template = TemplateDef(<<"T">>, Obj(<<entry>>), Undefined)
       /\ prompts = <<Question("customization", entry.key, CustomizationDefaultText(entry))>>
  /\ console = <<>>
  /\ lastAnswer = Undefined
  /\ args = EmptyObj
  /\ templateId = Str(s_T)
  /\ projectDetails = Undefined
  /\ customizations = EmptyObj
  /\ custIdx = 1
  /\ outputDir = <<>>
  /\ envContent = Undefined
  /\ secrets = <<>>

\* One of select / multiSelect / confirm reads its line and returns.
ResolvePrompt ==
  /\ pc = "customization"
  /\ LET entry == CustEntries(template)[custIdx]
     IN \E answer \in LinesFor(entry.type) :
          /\ lastAnswer' = Str(answer)
          /\ customizations' = Put(customizations, entry.key, CustomizationValue(entry, answer))
  /\ custIdx' = custIdx + 1
  /\ pc' = "resolved"
  /\ UNCHANGED <<argv, catalogFile, config, tplDirs, now, fs0, fs, writes, exitCode, rl, prompts,
                 console, args, templateId, template, projectDetails, outputDir, envContent,
                 secrets>>

NextPrompt == ResolvePrompt

SpecPrompt == InitPrompt /\ [][NextPrompt]_vars

\* The entry whose prompt was resolved, the line read and the value bound.
PromptedEntry == template.customizations.v[1]
PromptLine == lastAnswer.v
PromptValue == customizations[PromptedEntry.key]

PromptResolved(type) == pc = "resolved" /\ PromptedEntry.type = type

IsOption(x) ==
  x.t = "str" /\ \E i \in 1..Len(PromptedEntry.options) : PromptedEntry.options[i] = x.v

\* C25 (as stated): a select prompt resolves to options[k-1] when the trimmed
\* line denotes an integer k, 1 <= k <= |options|, and to the default for any
\* other line; the value is one of the options whenever the default is.
C25_SelectPrompt ==
  PromptResolved("select") =>
    /\ PromptValue =
         IF StatedIndex(PromptLine) \in 1..Len(PromptedEntry.options)
           THEN Str(PromptedEntry.options[StatedIndex(PromptLine)])
           ELSE PromptedEntry.default
    /\ IsOption(PromptedEntry.default) => IsOption(PromptValue)

\* The options a comma-separated line denotes by its valid 1-based indices.
StatedSelection(line) ==
  { PromptedEntry.options[StatedIndex(Split(line, ",")[i])] :
      i \in { j \in 1..Len(Split(line, ",")) :
                StatedIndex(Split(line, ",")[j]) \in 1..Len(PromptedEntry.options) } }

StatedMultiDefault ==
  IF PromptedEntry.default = Undefined THEN Arr(<<>>) ELSE PromptedEntry.default

\* C26 (as stated): a multiselect prompt resolves to the options its line
\* denotes by valid indices, none occurring twice, invalid and empty pieces
\* being dropped; when the line is empty or denotes no option, to the default.
C26_MultiSelectPrompt ==
  PromptResolved("multiselect") =>
    IF StatedSelection(Trim(PromptLine)) = {}
      THEN PromptValue = StatedMultiDefault
      ELSE /\ PromptValue.t = "arr"
           /\ Range(PromptValue.v) = StatedSelection(Trim(PromptLine))
           /\ \A i, j \in 1..Len(PromptValue.v) : PromptValue.v[i] = PromptValue.v[j] => i = j

====
